---- MODULE Spec2Model ----
(***************************************************************************)
(* Model of SCRIPT_stock_screening.py: the numeric primitives, the metric  *)
(* calculators and the per-ticker pipeline of main.                        *)
(*                                                                         *)
(* Numbers.  Every Python float is modelled as an exact fixed-point number *)
(* with two decimals, stored as an integer count of hundredths (1.50 is    *)
(* 150).  round(x, 2) of an exact rational is RoundDiv (ties to even, as   *)
(* Python's round); roots are taken exactly and then rounded.  Binary      *)
(* floating-point error is not modelled.                                   *)
(*                                                                         *)
(* Optional values.  Python's None is the empty tuple, a present value v   *)
(* is the one-element tuple <<v>>.                                         *)
(***************************************************************************)
EXTENDS Integers, Sequences, FiniteSets, TLC

VARIABLES
    values,     \* the argument of a primitive under test
    result,     \* what the primitive returned
    pc,         \* the step reached
    data,       \* fetch_screening_data's dict for the ticker: four payloads
    now_year,   \* datetime.now().year
    results,    \* main's results dict for the ticker
    argv,       \* sys.argv[1:]
    tickers,    \* main's ticker list
    ticker_no,  \* position of main's loop in tickers, from 1
    endpoint_i, \* i of fetch_screening_data's loop over endpoints, from 0
    calls,      \* the API calls and the sleeps made so far, in order
    all_results, \* main's all_results dict
    report,     \* the file written by generate_screening_report
    now_date,   \* datetime.now(), as YYYYMMDD
    status,     \* the exit status of the process
    args_count, \* SCRIPT_reddit_top_posts.py: args.count
    all_posts,  \* its all_posts dict: subreddit -> posts
    shown,      \* the posts display_posts printed, by subreddit
    loop_no,    \* position of a loop over subreddits or impersonations, from 1
    url         \* SCRIPT_the_batch.py: the url handed to fetch_html

\* the state of a run of main beyond one ticker's pipeline
run_vars == <<argv, tickers, ticker_no, endpoint_i, calls, all_results, report, now_date, status>>

\* the state of the two other scripts
script_vars == <<args_count, all_posts, shown, loop_no, url>>

vars == <<values, result, pc, data, now_year, results,
          argv, tickers, ticker_no, endpoint_i, calls, all_results, report, now_date, status,
          args_count, all_posts, shown, loop_no, url>>

\* ------------------------------------------------------------------------
\* Optional values
\* ------------------------------------------------------------------------
None == <<>>

Some(v) == <<v>>

IsNone(x) == x = <<>>

Val(x) == x[1]

\* ------------------------------------------------------------------------
\* Bounds of the model
\* ------------------------------------------------------------------------
\* longest input sequence over the rich value set
MaxLen == 4

\* longest input sequence over the narrow value set (outliers need >= 6 values)
MaxLongLen == 7

\* monthly entries of a short price series, in every order
MaxShortMonths == 2

\* December closes of a price series (more than YEARS_TO_ANALYZE years)
MaxYears == 7

\* months of a contiguous monthly price series (index 12 exists from 13 on)
MaxMonths == 14

\* annual entries over the narrow entry set (more than YEARS_TO_ANALYZE)
MaxAnnual == 6

\* annual entries over the rich entry set
MaxAnnualRich == 3

\* quarterly entries (index 4 exists from 5 on)
MaxQuarterly == 5

\* entries of the estimates list
MaxEstimates == 3

\* longest ticker list handed to generate_screening_report on its own
MaxTickers == 3

\* most words on the command line
MaxArgs == 6

\* most API calls that fail in one run
MaxFailures == 1

\* ------------------------------------------------------------------------
\* Arithmetic helpers
\* ------------------------------------------------------------------------
Abs(x) == IF x < 0 THEN -x ELSE x

Min2(a, b) == IF a <= b THEN a ELSE b

Max2(a, b) == IF a >= b THEN a ELSE b

\* round(a / b) to the nearest integer, ties to even; b > 0
RoundDivPos(a, b) ==
    LET q == a \div b
        r == a % b
    IN  IF 2 * r < b THEN q
        ELSE IF 2 * r > b THEN q + 1
        ELSE IF q % 2 = 0 THEN q ELSE q + 1

\* round(a / b) to the nearest integer, ties to even; b # 0
RoundDiv(a, b) == IF b > 0 THEN RoundDivPos(a, b) ELSE RoundDivPos(-a, -b)

RECURSIVE SeqSum(_)
SeqSum(s) == IF s = <<>> THEN 0 ELSE Head(s) + SeqSum(Tail(s))

RECURSIVE SeqMax(_)
SeqMax(s) == IF Len(s) = 1 THEN s[1] ELSE Max2(Head(s), SeqMax(Tail(s)))

RECURSIVE SeqMin(_)
SeqMin(s) == IF Len(s) = 1 THEN s[1] ELSE Min2(Head(s), SeqMin(Tail(s)))

Reverse(s) == [i \in 1..Len(s) |-> s[Len(s) + 1 - i]]

\* s[:n]
Take(s, n) == SubSeq(s, 1, Min2(n, Len(s)))

\* s[-n:]
LastN(s, n) == SubSeq(s, Max2(1, Len(s) - n + 1), Len(s))

\* ------------------------------------------------------------------------
\* Exact natural numbers of any size: little-endian digits in base BigBase.
\* They carry the powers that the rounding of a root has to compare.
\* ------------------------------------------------------------------------
BigBase == 10 * 10 * 10

RECURSIVE BigNorm(_, _)
BigNorm(digits, carry) ==
    IF digits = <<>>
    THEN IF carry = 0 THEN <<>>
         ELSE <<carry % BigBase>> \o BigNorm(<<>>, carry \div BigBase)
    ELSE LET d == Head(digits) + carry
         IN  <<d % BigBase>> \o BigNorm(Tail(digits), d \div BigBase)

RECURSIVE BigStrip(_)
BigStrip(b) ==
    IF b # <<>> /\ b[Len(b)] = 0 THEN BigStrip(SubSeq(b, 1, Len(b) - 1)) ELSE b

BigOf(n) == BigNorm(<<>>, n)

BigDigit(b, i) == IF i <= Len(b) THEN b[i] ELSE 0

BigAdd(a, b) ==
    BigStrip(BigNorm([i \in 1..Max2(Len(a), Len(b)) |-> BigDigit(a, i) + BigDigit(b, i)], 0))

\* b * m for a natural m
RECURSIVE BigMulSmall(_, _)
BigMulSmall(b, m) ==
    IF m < BigBase THEN BigStrip(BigNorm([i \in 1..Len(b) |-> b[i] * m], 0))
    ELSE BigAdd(BigMulSmall(b, m % BigBase),
                BigStrip(<<0>> \o BigMulSmall(b, m \div BigBase)))

RECURSIVE BigPowMul(_, _, _)
\* b * m^k
BigPowMul(b, m, k) ==
    IF k = 0 THEN b
    ELSE LET next == BigMulSmall(b, m)
         IN  IF Len(next) >= 0 THEN BigPowMul(next, m, k - 1) ELSE <<>>

RECURSIVE BigLeqFrom(_, _, _)
BigLeqFrom(a, b, i) ==
    IF i = 0 THEN TRUE
    ELSE IF a[i] # b[i] THEN a[i] < b[i]
    ELSE BigLeqFrom(a, b, i - 1)

\* a <= b
BigLeq(a, b) ==
    IF Len(a) # Len(b) THEN Len(a) < Len(b) ELSE BigLeqFrom(a, b, Len(a))

\* t^k * f <= s^k * l   (naturals)
PowLeq(t, k, f, s, l) == BigLeq(BigPowMul(BigOf(f), t, k), BigPowMul(BigOf(l), s, k))

RECURSIVE FloorSearch(_, _, _, _, _, _)
\* the largest t in lo..hi-1 with t^k * f <= s^k * l, given that lo is one
FloorSearch(lo, hi, k, f, s, l) ==
    IF hi - lo <= 1 THEN lo
    ELSE LET mid == (lo + hi) \div 2
         IN  IF PowLeq(mid, k, f, s, l)
             THEN FloorSearch(mid, hi, k, f, s, l)
             ELSE FloorSearch(lo, mid, k, f, s, l)

\* round(scale * (l / f)^(1/k)) to the nearest integer, ties to even;
\* f > 0, l >= 0, k >= 1.  t is the floor of twice the scaled root.
RoundRoot(l, f, k, scale) ==
    LET s  == 2 * scale
        hi == s * (1 + Max2(1, (l \div f) + 1))
        t  == FloorSearch(0, hi, k, f, s, l)
        q  == t \div 2
    IN  IF t % 2 = 0 THEN q
        ELSE IF PowLeq(t, k, f, s, l) /\ PowLeq(s, k, l, t, f) /\ q % 2 = 0 THEN q
        ELSE q + 1

\* ------------------------------------------------------------------------
\* Numeric primitives
\* ------------------------------------------------------------------------
IsSome(x) == x # <<>>

\* [v for v in values if v is not None]
Clean(vs) == [i \in 1..Len(SelectSeq(vs, IsSome)) |-> Val(SelectSeq(vs, IsSome)[i])]

\* [(i, v) for i, v in enumerate(values) if v is not None]; i is 0-based
RECURSIVE CleanIndexedFrom(_, _)
CleanIndexedFrom(vs, i) ==
    IF vs = <<>> THEN <<>>
    ELSE IF IsSome(Head(vs))
         THEN <<[i |-> i, v |-> Val(Head(vs))]>> \o CleanIndexedFrom(Tail(vs), i + 1)
         ELSE CleanIndexedFrom(Tail(vs), i + 1)

CleanIndexed(vs) == CleanIndexedFrom(vs, 0)

\* calculate_cagr with the periods counted on the unfiltered input
calculate_cagr_rawlen(vs) ==
    LET clean == Clean(vs)
        n     == Len(clean)
    IN  IF n < 2 \/ clean[1] <= 0 \/ clean[n] <= 0 THEN None
        ELSE Some(RoundRoot(clean[n], clean[1], Len(vs) - 1, 10000) - 10000)

\* result in hundredths of a percent
calculate_cagr(vs) ==
    LET clean == Clean(vs)
        n     == Len(clean)
    IN  IF n < 2 \/ clean[1] <= 0 \/ clean[n] <= 0 THEN None
        ELSE Some(RoundRoot(clean[n], clean[1], n - 1, 10000) - 10000)

calculate_avg(vs) ==
    LET clean == Clean(vs)
    IN  IF clean # <<>> THEN Some(RoundDiv(SeqSum(clean), Len(clean))) ELSE None

\* calculate_cv with the length guard off by one (len(clean) < 1)
calculate_cv_guard1(vs) ==
    LET clean == Clean(vs)
        n     == Len(clean)
        s     == SeqSum(clean)
        sq    == SeqSum([i \in 1..n |-> clean[i] * clean[i]])
    IN  IF n < 1 THEN None
        ELSE IF s = 0 THEN None
        ELSE Some(RoundRoot(n * sq - s * s, s * s, 2, 10000))

\* sqrt(variance) / |avg| * 100 = 100 * sqrt(n * sum(x^2) - sum(x)^2) / |sum(x)|
calculate_cv(vs) ==
    LET clean == Clean(vs)
        n     == Len(clean)
        s     == SeqSum(clean)
        sq    == SeqSum([i \in 1..n |-> clean[i] * clean[i]])
    IN  IF n < 2 THEN None
        ELSE IF s = 0 THEN None
        ELSE Some(RoundRoot(n * sq - s * s, s * s, 2, 10000))

\* calculate_slope regressing against positions in the filtered sequence
calculate_slope_filtered(vs) ==
    LET clean  == Clean(vs)
        n      == Len(clean)
        sum_x  == SeqSum([j \in 1..n |-> j - 1])
        sum_y  == SeqSum(clean)
        sum_xy == SeqSum([j \in 1..n |-> (j - 1) * clean[j]])
        sum_x2 == SeqSum([j \in 1..n |-> (j - 1) * (j - 1)])
        denominator == n * sum_x2 - sum_x * sum_x
    IN  IF n < 2 THEN None
        ELSE IF denominator = 0 THEN None
        ELSE Some(RoundDiv(n * sum_xy - sum_x * sum_y, denominator))

calculate_slope(vs) ==
    LET clean  == CleanIndexed(vs)
        n      == Len(clean)
        sum_x  == SeqSum([j \in 1..n |-> clean[j].i])
        sum_y  == SeqSum([j \in 1..n |-> clean[j].v])
        sum_xy == SeqSum([j \in 1..n |-> clean[j].i * clean[j].v])
        sum_x2 == SeqSum([j \in 1..n |-> clean[j].i * clean[j].i])
        denominator == n * sum_x2 - sum_x * sum_x
    IN  IF n < 2 THEN None
        ELSE IF denominator = 0 THEN None
        ELSE Some(RoundDiv(n * sum_xy - sum_x * sum_y, denominator))

calculate_recent_delta(vs) ==
    LET clean  == Clean(vs)
        n      == Len(clean)
        recent == clean[n]
        prior  == clean[n - 1]
    IN  IF n < 2 THEN [absolute |-> None, percent |-> None]
        ELSE [absolute |-> Some(recent - prior),
              percent  |-> IF prior # 0
                           THEN Some(RoundDiv((recent - prior) * 10000, Abs(prior)))
                           ELSE None]

\* the band test with the bounds themselves counted as outside (<=, >=)
OutsideTwoSigma_inclusive(v, n, s, sq) ==
    LET d == n * v - s
    IN  d * d >= 4 * (n * sq - s * s)

\* v < mean - 2 * std_dev  or  v > mean + 2 * std_dev, with mean = s / n and
\* std_dev = sqrt(n * sq - s * s) / n, compared exactly
OutsideTwoSigma(v, n, s, sq) ==
    LET d == n * v - s
    IN  d * d > 4 * (n * sq - s * s)

\* detect_outliers numbering the non-None values after the filter
detect_outliers_filtered(vs) ==
    LET clean == Clean(vs)
        n     == Len(clean)
        s     == SeqSum(clean)
        sq    == SeqSum([j \in 1..n |-> clean[j] * clean[j]])
        idx   == [j \in 1..n |-> j - 1]
        IsOut(k) == OutsideTwoSigma(clean[k + 1], n, s, sq)
    IN  IF n < 3 THEN <<>>
        ELSE SelectSeq(idx, IsOut)

detect_outliers(vs) ==
    LET clean == CleanIndexed(vs)
        n     == Len(clean)
        vals  == [j \in 1..n |-> clean[j].v]
        s     == SeqSum(vals)
        sq    == SeqSum([j \in 1..n |-> vals[j] * vals[j]])
        IsOut(e) == OutsideTwoSigma(e.v, n, s, sq)
        hits  == SelectSeq(clean, IsOut)
    IN  IF n < 3 THEN <<>>
        ELSE [j \in 1..Len(hits) |-> hits[j].i]

\* ------------------------------------------------------------------------
\* Raw API payloads
\*
\* A JSON field is <<>> when the key is missing (dict.get gives None),
\* <<"str", t>> for a text that is no number ("None", "", "n/a") and
\* <<"num", v>> for the text of the number v.  A date "YYYY-MM-DD" is the
\* integer YYYYMM; the day plays no part in the calculators.
\* ------------------------------------------------------------------------
YEARS_TO_ANALYZE_six == 5 + 1

YEARS_TO_ANALYZE == 5

\* monthly = monthly[:60]
MONTHS_KEPT == 60

Missing == <<>>

Text(t) == <<"str", t>>

Num(v) == <<"num", v>>

\* float(value), or None when the value is None, 'None', '' or no number
safe_float(raw) ==
    IF raw = <<>> THEN None
    ELSE IF raw[1] = "num" THEN Some(raw[2])
    ELSE None

\* safe_float(r.get(key, 0)) or 0
float_or_zero(raw) == IF safe_float(raw) = None THEN 0 ELSE Val(safe_float(raw))

\* date_str[:4]
YearOf(d) == d \div 100

\* date_str[5:7]
MonthOf(d) == d % 100

\* entry.get('fiscalDateEnding', '')[:4]; None stands for ''
YearLabel(optdate) == IF optdate = None THEN None ELSE Some(YearOf(Val(optdate)))

\* bool(x) of an optional float: None and 0.0 are falsy
Truthy(x) == x # None /\ Val(x) # 0

safe_divide(num, denom) ==
    IF num = None \/ denom = None THEN None
    ELSE IF Val(denom) = 0 THEN None
    ELSE Some([num |-> Val(num), den |-> Val(denom)])

\* pct with 0 as the default of an undefined quotient
pct_zerodefault(num, denom) ==
    LET q == safe_divide(num, denom)
    IN  IF q # None THEN Some(RoundDiv(Val(q).num * 10000, Val(q).den)) ELSE Some(0)

\* round(num / denom * 100, 2), in hundredths of a percent
pct(num, denom) ==
    LET q == safe_divide(num, denom)
    IN  IF q # None THEN Some(RoundDiv(Val(q).num * 10000, Val(q).den)) ELSE None

\* round((a - b) / d * 100, 2) for d # 0
PctChange(a, b, d) == RoundDiv((a - b) * 10000, d)

\* sorted(S) for a set of integers
RECURSIVE SortedSeq(_)
SortedSeq(S) ==
    IF S = {} THEN <<>>
    ELSE LET m == CHOOSE x \in S : \A y \in S : x <= y
         IN  <<m>> \o SortedSeq(S \ {m})

\* [annual_years[i] for i in detect_outliers(annual_values)] if annual_values else []
OutlierLabels(years, vals) ==
    IF vals = <<>> THEN <<>>
    ELSE LET idx == detect_outliers([i \in 1..Len(vals) |-> Some(vals[i])])
         IN  [j \in 1..Len(idx) |-> years[idx[j] + 1]]

\* a list of floats handed to a primitive
Floats(vals) == [i \in 1..Len(vals) |-> Some(vals[i])]

\* ------------------------------------------------------------------------
\* calculate_price_stats
\* ------------------------------------------------------------------------
HasClose(e) == safe_float(e.close) # None

\* monthly.sort(key=lambda x: x[0], reverse=True); the dates are dict keys
SortNewestFirst(entries) ==
    LET dates == SortedSeq({entries[i].date : i \in 1..Len(entries)})
        At(d) == CHOOSE i \in 1..Len(entries) : entries[i].date = d
    IN  [k \in 1..Len(dates) |-> entries[At(dates[Len(dates) + 1 - k])]]

PriceInsufficient_one(monthly) == Len(monthly) < 1

\* if len(monthly) < 2: return None
PriceInsufficient(monthly) == Len(monthly) < 2

last_12_all(closes) == closes

\* the twelve closes before the current one
last_12_skipcurrent(closes) == Take(Tail(closes), 12)

\* last_12 = closes[:min(12, len(closes))]
last_12(closes) == Take(closes, 12)

calculate_price_stats(price_data) ==
    IF price_data = None THEN None
    ELSE IF Val(price_data).time_series = <<>> THEN None
    ELSE
    LET kept     == SelectSeq(Val(price_data).time_series, HasClose)
        sorted   == SortNewestFirst(kept)
        monthly  == Take(sorted, MONTHS_KEPT)
        closes   == [i \in 1..Len(monthly) |-> Val(safe_float(monthly[i].close))]
        dates    == [i \in 1..Len(monthly) |-> monthly[i].date]
        current  == closes[1]
        vs_3mo   == IF Len(closes) > 3 /\ closes[4] # 0
                    THEN Some(PctChange(current, closes[4], closes[4])) ELSE None
        vs_yoy   == IF Len(closes) > 12 /\ closes[13] # 0
                    THEN Some(PctChange(current, closes[13], closes[13])) ELSE None
        high_52w == SeqMax(last_12(closes))
        low_52w  == SeqMin(last_12(closes))
        closes_chrono == Reverse(closes)
        dec_years    == {YearOf(dates[i]) : i \in {j \in 1..Len(dates) : MonthOf(dates[j]) = 12}}
        DecClose(y)  == closes[CHOOSE i \in 1..Len(dates) :
                                   YearOf(dates[i]) = y /\ MonthOf(dates[i]) = 12]
        current_year == YearOf(dates[1])
        AnnualPrice(y) == IF y \in dec_years THEN DecClose(y) ELSE current
        sorted_years  == LastN(SortedSeq(dec_years \cup {current_year}), YEARS_TO_ANALYZE)
        annual_values == [i \in 1..Len(sorted_years) |-> AnnualPrice(sorted_years[i])]
    IN  IF PriceInsufficient(sorted) THEN None
        ELSE Some([
            current            |-> current,
            current_date       |-> dates[1],
            mean_5yr           |-> calculate_avg(Floats(closes_chrono)),
            cagr_5yr           |-> calculate_cagr(Floats(closes_chrono)),
            cv                 |-> calculate_cv(Floats(closes_chrono)),
            slope              |-> calculate_slope(Floats(closes_chrono)),
            vs_3mo_pct         |-> vs_3mo,
            vs_yoy_pct         |-> vs_yoy,
            high_52w           |-> high_52w,
            low_52w            |-> low_52w,
            vs_52w_high_pct    |-> IF high_52w # 0
                                   THEN Some(PctChange(current, high_52w, high_52w))
                                   ELSE None,
            vs_52w_low_pct     |-> IF low_52w # 0
                                   THEN Some(PctChange(current, low_52w, low_52w))
                                   ELSE None,
            months_of_data     |-> Len(closes),
            annual_years       |-> sorted_years,
            annual_values      |-> annual_values,
            annual_recent_delta |-> calculate_recent_delta(Floats(annual_values)),
            annual_outliers    |-> OutlierLabels(sorted_years, annual_values)])

\* ------------------------------------------------------------------------
\* calculate_eps_stats
\* ------------------------------------------------------------------------
\* the entries of annual[:YEARS_TO_ANALYZE] that have a value and a year
HasEpsAndYear(e) == safe_float(e.reportedEPS) # None /\ YearLabel(e.fiscalDateEnding) # None

HasBeatMiss(q) == safe_float(q.reportedEPS) # None /\ safe_float(q.estimatedEPS) # None

BeatMiss(q) ==
    LET reported  == Val(safe_float(q.reportedEPS))
        estimated == Val(safe_float(q.estimatedEPS))
    IN  [date         |-> q.fiscalDateEnding,
         reported     |-> reported,
         estimated    |-> estimated,
         surprise     |-> reported - estimated,
         surprise_pct |-> IF estimated # 0
                          THEN Some(PctChange(reported, estimated, Abs(estimated)))
                          ELSE None]

EpsInsufficient_one(quarterly) == Len(quarterly) < 1

\* if not quarterly or len(quarterly) < 2: return None
EpsInsufficient(quarterly) == Len(quarterly) < 2

\* the sum of the first four reported EPS that parse, however many do
ttm_eps_partial(quarterly) ==
    LET ttm_values == [i \in 1..Min2(4, Len(quarterly)) |-> safe_float(quarterly[i].reportedEPS)]
    IN  Some(SeqSum([i \in 1..Len(ttm_values) |-> float_or_zero(quarterly[i].reportedEPS)]))

\* ttm_eps: round(sum(ttm_values), 2) of quarterly[:4], all four not None
ttm_eps(quarterly) ==
    LET ttm_values == [i \in 1..4 |-> safe_float(quarterly[i].reportedEPS)]
    IN  IF Len(quarterly) >= 4 /\ \A i \in 1..4 : ttm_values[i] # None
        THEN Some(SeqSum([i \in 1..4 |-> Val(ttm_values[i])]))
        ELSE None

calculate_eps_stats(earnings_data) ==
    IF earnings_data = None THEN None
    ELSE
    LET quarterly  == Val(earnings_data).quarterlyEarnings
        annual     == Val(earnings_data).annualEarnings
        latest_eps == safe_float(quarterly[1].reportedEPS)
        prev_eps   == safe_float(quarterly[2].reportedEPS)
        vs_prev_q  == IF Len(quarterly) > 1 /\ prev_eps # None /\ Val(prev_eps) # 0
                      THEN Some(PctChange(Val(latest_eps), Val(prev_eps), Abs(Val(prev_eps))))
                      ELSE None
        yoy_eps    == safe_float(quarterly[5].reportedEPS)
        vs_yoy     == IF Len(quarterly) > 4 /\ yoy_eps # None /\ Val(yoy_eps) # 0
                      THEN Some(PctChange(Val(latest_eps), Val(yoy_eps), Abs(Val(yoy_eps))))
                      ELSE None
        kept       == SelectSeq(Take(annual, YEARS_TO_ANALYZE), HasEpsAndYear)
        annual_eps   == Reverse([i \in 1..Len(kept) |-> Val(safe_float(kept[i].reportedEPS))])
        annual_years == Reverse([i \in 1..Len(kept) |-> Val(YearLabel(kept[i].fiscalDateEnding))])
        first4     == SelectSeq(Take(quarterly, 4), HasBeatMiss)
    IN  IF EpsInsufficient(quarterly) THEN None
        ELSE IF latest_eps = None THEN None
        ELSE Some([
            latest        |-> Val(latest_eps),
            latest_date   |-> quarterly[1].fiscalDateEnding,
            ttm           |-> ttm_eps(quarterly),
            vs_prev_q_pct |-> vs_prev_q,
            vs_yoy_pct    |-> vs_yoy,
            mean_5yr      |-> calculate_avg(Floats(annual_eps)),
            cagr_5yr      |-> calculate_cagr(Floats(annual_eps)),
            cv            |-> calculate_cv(Floats(annual_eps)),
            slope         |-> calculate_slope(Floats(annual_eps)),
            recent_delta  |-> calculate_recent_delta(Floats(annual_eps)),
            outlier_years |-> OutlierLabels(annual_years, annual_eps),
            annual_years  |-> annual_years,
            annual_values |-> annual_eps,
            years_of_data |-> Len(annual_eps),
            beat_miss_history |-> [i \in 1..Len(first4) |-> BeatMiss(first4[i])]])

\* ------------------------------------------------------------------------
\* calculate_revenue_stats and calculate_margin_stats
\* ------------------------------------------------------------------------
HasRevenueAndYear(r) == safe_float(r.totalRevenue) # None /\ YearLabel(r.fiscalDateEnding) # None

\* r.get('fiscalDateEnding', '').startswith(current_year)
InYear(r, year) == YearLabel(r.fiscalDateEnding) = Some(year)

\* ytd_quarters for the wall-clock year
YtdQuarters(quarterly_reports, year) ==
    LET IsYtd(r) == InYear(r, year)
    IN  SelectSeq(quarterly_reports, IsYtd)

calculate_revenue_stats(income_data, year_now) ==
    IF income_data = None THEN None
    ELSE
    LET annual_reports    == Val(income_data).annualReports
        quarterly_reports == Val(income_data).quarterlyReports
        kept         == SelectSeq(Take(annual_reports, YEARS_TO_ANALYZE), HasRevenueAndYear)
        annual_rev   == Reverse([i \in 1..Len(kept) |-> Val(safe_float(kept[i].totalRevenue))])
        annual_years == Reverse([i \in 1..Len(kept) |-> Val(YearLabel(kept[i].fiscalDateEnding))])
        n            == Len(annual_rev)
        vs_yoy       == IF annual_rev[n - 1] # 0
                        THEN Some(PctChange(annual_rev[n], annual_rev[n - 1], Abs(annual_rev[n - 1])))
                        ELSE None
        q_latest     == safe_float(quarterly_reports[1].totalRevenue)
        q_prev       == safe_float(quarterly_reports[2].totalRevenue)
        vs_prev_q    == IF Len(quarterly_reports) >= 2 /\ Truthy(q_latest) /\ Truthy(q_prev)
                        THEN Some(PctChange(Val(q_latest), Val(q_prev), Abs(Val(q_prev))))
                        ELSE None
        ytd_quarters == YtdQuarters(quarterly_reports, year_now)
        ytd_sum      == SeqSum([i \in 1..Len(ytd_quarters) |-> float_or_zero(ytd_quarters[i].totalRevenue)])
    IN  IF annual_reports = <<>> THEN None
        ELSE IF n < 2 THEN None
        ELSE Some([
            latest        |-> annual_rev[n],
            latest_year   |-> Some(annual_years[n]),
            vs_yoy_pct    |-> vs_yoy,
            vs_prev_q_pct |-> vs_prev_q,
            mean_5yr      |-> calculate_avg(Floats(annual_rev)),
            cagr_5yr      |-> calculate_cagr(Floats(annual_rev)),
            cv            |-> calculate_cv(Floats(annual_rev)),
            slope         |-> calculate_slope(Floats(annual_rev)),
            recent_delta  |-> calculate_recent_delta(Floats(annual_rev)),
            outlier_years |-> OutlierLabels(annual_years, annual_rev),
            annual_years  |-> annual_years,
            annual_values |-> annual_rev,
            years_of_data |-> n,
            \* ytd_sum * (4 / ytd_num_quarters), kept as an exact fraction
            ytd_annualized   |-> IF ytd_quarters # <<>>
                                 THEN Some([num |-> 4 * ytd_sum, den |-> Len(ytd_quarters)])
                                 ELSE None,
            ytd_num_quarters |-> Len(ytd_quarters),
            quarterly_latest |-> IF quarterly_reports # <<>>
                                 THEN safe_float(quarterly_reports[1].totalRevenue)
                                 ELSE None,
            quarterly_latest_date |-> IF quarterly_reports # <<>>
                                      THEN quarterly_reports[1].fiscalDateEnding
                                      ELSE None])

Margin(r) == pct(safe_float(r.operatingIncome), safe_float(r.totalRevenue))

HasMarginAndYear(r) == Margin(r) # None /\ YearLabel(r.fiscalDateEnding) # None

calculate_margin_stats(income_data, year_now) ==
    IF income_data = None THEN None
    ELSE
    LET annual_reports    == Val(income_data).annualReports
        quarterly_reports == Val(income_data).quarterlyReports
        kept           == SelectSeq(Take(annual_reports, YEARS_TO_ANALYZE), HasMarginAndYear)
        annual_margins == Reverse([i \in 1..Len(kept) |-> Val(Margin(kept[i]))])
        annual_years   == Reverse([i \in 1..Len(kept) |-> Val(YearLabel(kept[i].fiscalDateEnding))])
        n              == Len(annual_margins)
        q_latest_margin == Margin(quarterly_reports[1])
        q_prev_margin   == Margin(quarterly_reports[2])
        vs_prev_q      == IF Len(quarterly_reports) >= 2
                             /\ q_latest_margin # None /\ q_prev_margin # None
                          THEN Some(Val(q_latest_margin) - Val(q_prev_margin))
                          ELSE None
        ytd_quarters   == YtdQuarters(quarterly_reports, year_now)
        ytd_oi  == SeqSum([i \in 1..Len(ytd_quarters) |-> float_or_zero(ytd_quarters[i].operatingIncome)])
        ytd_rev == SeqSum([i \in 1..Len(ytd_quarters) |-> float_or_zero(ytd_quarters[i].totalRevenue)])
    IN  IF annual_reports = <<>> THEN None
        ELSE IF n < 2 THEN None
        ELSE Some([
            latest        |-> annual_margins[n],
            latest_year   |-> Some(annual_years[n]),
            vs_yoy_pct    |-> Some(annual_margins[n] - annual_margins[n - 1]),
            vs_prev_q_pct |-> vs_prev_q,
            mean_5yr      |-> calculate_avg(Floats(annual_margins)),
            cagr_5yr      |-> calculate_cagr(Floats(annual_margins)),
            cv            |-> calculate_cv(Floats(annual_margins)),
            slope         |-> calculate_slope(Floats(annual_margins)),
            recent_delta  |-> calculate_recent_delta(Floats(annual_margins)),
            outlier_years |-> OutlierLabels(annual_years, annual_margins),
            annual_years  |-> annual_years,
            annual_values |-> annual_margins,
            years_of_data |-> n,
            ytd_margin    |-> IF ytd_quarters # <<>> THEN pct(Some(ytd_oi), Some(ytd_rev)) ELSE None,
            ytd_num_quarters |-> Len(ytd_quarters)])

\* ------------------------------------------------------------------------
\* calculate_pe_stats
\* ------------------------------------------------------------------------
\* dict(zip(years, values))[y]: a later pair overwrites an earlier one
ZipLookup(years, vals, y) ==
    vals[CHOOSE i \in 1..Len(years) :
             years[i] = y /\ \A j \in (i + 1)..Len(years) : years[j] # y]

SeqRange(s) == {s[i] : i \in 1..Len(s)}

PePositive_nonzero(eps) == eps # 0

\* if price is not None and eps is not None and eps > 0
PePositive(eps) == eps > 0

calculate_pe_stats(price_stats, eps_stats) ==
    IF price_stats = None \/ eps_stats = None THEN None
    ELSE
    LET price == Val(price_stats)
        eps   == Val(eps_stats)
        current_price == price.current
        ttm           == eps.ttm
        trailing_pe   == IF current_price # 0 /\ Truthy(ttm) /\ Val(ttm) > 0
                         THEN Some(RoundDiv(current_price * 100, Val(ttm)))
                         ELSE None
        common_years  == SortedSeq(SeqRange(price.annual_years) \cap SeqRange(eps.annual_years))
        PriceOf(y)    == ZipLookup(price.annual_years, price.annual_values, y)
        EpsOf(y)      == ZipLookup(eps.annual_years, eps.annual_values, y)
        Positive(y)   == PePositive(EpsOf(y))
        pe_years      == SelectSeq(common_years, Positive)
        pe_values     == [i \in 1..Len(pe_years) |->
                             RoundDiv(PriceOf(pe_years[i]) * 100, EpsOf(pe_years[i]))]
        n             == Len(pe_values)
        mean_5yr      == IF pe_values # <<>> THEN calculate_avg(Floats(pe_values)) ELSE None
        vs_5yr_avg_pct == IF Truthy(trailing_pe) /\ Truthy(mean_5yr)
                          THEN Some(PctChange(Val(trailing_pe), Val(mean_5yr), Val(mean_5yr)))
                          ELSE None
        vs_yoy_pct    == IF n >= 2 /\ pe_values[n - 1] # 0
                         THEN Some(PctChange(pe_values[n], pe_values[n - 1], pe_values[n - 1]))
                         ELSE None
    IN  Some([
            trailing_pe    |-> trailing_pe,
            current_price  |-> current_price,
            ttm_eps        |-> ttm,
            mean_5yr       |-> mean_5yr,
            cagr_5yr       |-> calculate_cagr(Floats(pe_values)),
            cv             |-> calculate_cv(Floats(pe_values)),
            slope          |-> calculate_slope(Floats(pe_values)),
            vs_yoy_pct     |-> vs_yoy_pct,
            vs_5yr_avg_pct |-> vs_5yr_avg_pct,
            recent_delta   |-> calculate_recent_delta(Floats(pe_values)),
            outlier_years  |-> OutlierLabels(pe_years, pe_values),
            annual_years   |-> pe_years,
            annual_values  |-> pe_values,
            years_of_data  |-> n])

\* ------------------------------------------------------------------------
\* calculate_estimates_stats
\*
\* A horizon text is the sequence of its words; " " is a run of blanks at
\* either end.  Substring search is containment of a run of words.
\* ------------------------------------------------------------------------
\* str.lower, word by word
LowerWord(w) ==
    CASE w = "Next"    -> "next"
      [] w = "NEXT"    -> "next"
      [] w = "Quarter" -> "quarter"
      [] w = "Fiscal"  -> "fiscal"
      [] w = "Year"    -> "year"
      [] w = "Current" -> "current"
      [] OTHER         -> w

Lower(text) == [i \in 1..Len(text) |-> LowerWord(text[i])]

\* str.strip
RECURSIVE Strip(_)
Strip(text) ==
    IF text = <<>> THEN text
    ELSE IF Head(text) = " " THEN Strip(Tail(text))
    ELSE IF text[Len(text)] = " " THEN Strip(SubSeq(text, 1, Len(text) - 1))
    ELSE text

\* phrase in text
Contains(text, phrase) ==
    \E k \in 0..(Len(text) - Len(phrase)) : SubSeq(text, k + 1, k + Len(phrase)) = phrase

\* (p.get('horizon') or '').strip().lower()
HorizonKey(p) == IF p.horizon = None THEN <<>> ELSE Lower(Strip(Val(p.horizon)))

ParseEstimate(est) ==
    [date          |-> est.date,
     horizon       |-> est.horizon,
     eps_avg       |-> safe_float(est.eps_estimate_average),
     eps_high      |-> safe_float(est.eps_estimate_high),
     eps_low       |-> safe_float(est.eps_estimate_low),
     analyst_count |-> safe_float(est.eps_estimate_analyst_count),
     revision_7d   |-> safe_float(est.eps_estimate_average_7_days_ago),
     revision_30d  |-> safe_float(est.eps_estimate_average_30_days_ago),
     revision_60d  |-> safe_float(est.eps_estimate_average_60_days_ago),
     revision_90d  |-> safe_float(est.eps_estimate_average_90_days_ago),
     rev_up_7d     |-> safe_float(est.eps_estimate_revision_up_trailing_7_days),
     rev_down_7d   |-> safe_float(est.eps_estimate_revision_down_trailing_7_days),
     rev_up_30d    |-> safe_float(est.eps_estimate_revision_up_trailing_30_days),
     rev_down_30d  |-> safe_float(est.eps_estimate_revision_down_trailing_30_days),
     revenue_avg   |-> safe_float(est.revenue_estimate_average),
     revenue_high  |-> safe_float(est.revenue_estimate_high),
     revenue_low   |-> safe_float(est.revenue_estimate_low),
     revenue_analyst_count |-> safe_float(est.revenue_estimate_analyst_count)]

HorizonStep_lastwins(found, p) ==
    LET horizon == HorizonKey(p)
    IN  IF Contains(horizon, <<"next", "quarter">>)
        THEN [found EXCEPT !.next_quarter = Some(p)]
        ELSE IF Contains(horizon, <<"next", "fiscal", "year">>)
        THEN [found EXCEPT !.next_fiscal_year = Some(p)]
        ELSE IF Contains(horizon, <<"current", "fiscal", "year">>)
        THEN [found EXCEPT !.current_fiscal_year = Some(p)]
        ELSE found

\* one pass of the loop over parsed: found holds the three horizons so far
HorizonStep(found, p) ==
    LET horizon == HorizonKey(p)
    IN  IF Contains(horizon, <<"next", "quarter">>) /\ found.next_quarter = None
        THEN [found EXCEPT !.next_quarter = Some(p)]
        ELSE IF Contains(horizon, <<"next", "fiscal", "year">>) /\ found.next_fiscal_year = None
        THEN [found EXCEPT !.next_fiscal_year = Some(p)]
        ELSE IF Contains(horizon, <<"current", "fiscal", "year">>) /\ found.current_fiscal_year = None
        THEN [found EXCEPT !.current_fiscal_year = Some(p)]
        ELSE found

RECURSIVE FindHorizons(_, _)
FindHorizons(found, parsed) ==
    IF parsed = <<>> THEN found
    ELSE FindHorizons(HorizonStep(found, Head(parsed)), Tail(parsed))

calculate_estimates_stats(estimates_data, earnings_data) ==
    IF estimates_data = None THEN None
    ELSE
    LET estimates == Val(estimates_data).estimates
        quarterly == Val(earnings_data).quarterlyEarnings
        latest_actual == IF earnings_data # None /\ quarterly # <<>>
                         THEN safe_float(quarterly[1].reportedEPS)
                         ELSE None
        parsed == [i \in 1..Len(estimates) |-> ParseEstimate(estimates[i])]
        found  == FindHorizons([next_quarter |-> None, next_fiscal_year |-> None,
                                current_fiscal_year |-> None], parsed)
        next_quarter == found.next_quarter
        consensus    == Val(next_quarter).eps_avg
        has_delta    == latest_actual # None /\ next_quarter # None /\ Truthy(consensus)
    IN  IF estimates = <<>> THEN None
        ELSE Some([
            latest_actual_eps   |-> latest_actual,
            next_quarter        |-> next_quarter,
            current_fiscal_year |-> found.current_fiscal_year,
            next_fiscal_year    |-> found.next_fiscal_year,
            delta_actual_vs_next_q |->
                IF has_delta THEN Some(Val(latest_actual) - Val(consensus)) ELSE None,
            delta_actual_vs_next_q_pct |->
                IF has_delta /\ Val(consensus) # 0
                THEN Some(PctChange(Val(latest_actual), Val(consensus), Abs(Val(consensus))))
                ELSE None,
            all_estimates       |-> parsed])

\* ------------------------------------------------------------------------
\* fmt_val.  The number handed to fmt_val is the exact fraction num / den
\* in the unit's own scale (dollars, percent, ratio); a calculator's value
\* of v hundredths is v / 100.  A rendered text is a sequence of tokens:
\* a literal piece of text, or a number printed with p decimals (n counts
\* units of 10^-p; p = -1 is the float's own repr of n / d).
\* ------------------------------------------------------------------------
Lit(s) == [k |-> "lit", s |-> s, n |-> 0, d |-> 1, p |-> 0]

NumTok(n, p) == [k |-> "num", s |-> "", n |-> n, d |-> 10 ^ p, p |-> p]

ReprTok(num, den) == [k |-> "num", s |-> "", n |-> num, d |-> den, p |-> -1]

\* the em-dash that stands for an absent value
Dash == <<Lit("em-dash")>>

Amount(num, den) == Some([num |-> num, den |-> den])

\* a calculator's float, stored in hundredths
Hundredths(v) == Amount(v, 100)

OptHundredths(x) == IF x = None THEN None ELSE Hundredths(Val(x))

\* val > 0
IsPositive(val) == val.num > 0

\* f"{val / scale:,.{places}f}" with scale = 10^shift, places <= shift + 2
Scaled(val, shift, places) ==
    IF places >= shift
    THEN NumTok(RoundDiv(val.num * 10 ^ (places - shift), val.den), places)
    ELSE NumTok(RoundDiv(val.num, val.den * 10 ^ (shift - places)), places)

IsBillions_signed(val) == val.num \div val.den >= 10 ^ 9

\* abs(val) >= 1e9
IsBillions(val) == Abs(val.num) \div val.den >= 10 ^ 9

IsMillions_signed(val) == val.num \div val.den >= 10 ^ 6

\* abs(val) >= 1e6
IsMillions(val) == Abs(val.num) \div val.den >= 10 ^ 6

fmt_val(val, unit, is_delta) ==
    IF val = None THEN Dash
    ELSE
    LET v      == Val(val)
        prefix == IF is_delta /\ IsPositive(v) THEN <<Lit("+")>> ELSE <<>>
    IN  CASE unit = "dollars" -> prefix \o <<Lit("$"), Scaled(v, 0, 2)>>
          [] unit = "dollars_large" ->
                 IF IsBillions(v)
                 THEN prefix \o <<Lit("$"), Scaled(v, 9, 2), Lit("B")>>
                 ELSE IF IsMillions(v)
                 THEN prefix \o <<Lit("$"), Scaled(v, 6, 1), Lit("M")>>
                 ELSE prefix \o <<Lit("$"), Scaled(v, 0, 0)>>
          [] unit = "percent" -> prefix \o <<Scaled(v, 0, 2), Lit("%")>>
          [] unit = "ratio"   -> prefix \o <<Scaled(v, 0, 2)>>
          [] OTHER            -> prefix \o <<ReprTok(v.num, v.den)>>

\* ------------------------------------------------------------------------
\* generate_screening_report.  A line of the report is a text (a sequence
\* of tokens) or a table handed to tabulate: its header cells and its rows
\* of cells, each cell a sequence of tokens.
\* ------------------------------------------------------------------------
\* str(n) of an int
IntTok(n) == [k |-> "int", s |-> "", n |-> n, d |-> 1, p |-> 0]

\* a year label, date_str[:4]
YearTok(y) == [k |-> "year", s |-> "", n |-> y, d |-> 1, p |-> 0]

\* a date string as the API gave it, or datetime.now().strftime('%Y-%m-%d')
DateTok(d) == [k |-> "date", s |-> "", n |-> d, d |-> 1, p |-> 0]

\* the None object handed to tabulate as a cell
NoneCell == <<[k |-> "none", s |-> "", n |-> 0, d |-> 1, p |-> 0]>>

\* str(None) inside an f-string: the text None
StrNone == [k |-> "str-none", s |-> "None", n |-> 0, d |-> 1, p |-> 0]

\* f"{x}" of an optional date
DateText(optdate) == IF optdate = None THEN <<StrNone>> ELSE <<DateTok(Val(optdate))>>

\* f"{x}" of an optional horizon text, word by word
HorizonText(h) == IF h = None THEN <<StrNone>> ELSE [i \in 1..Len(Val(h)) |-> Lit(Val(h)[i])]

\* sep.join(parts)
RECURSIVE Join(_, _)
Join(parts, sep) ==
    IF parts = <<>> THEN <<>>
    ELSE IF Len(parts) = 1 THEN parts[1]
    ELSE parts[1] \o <<Lit(sep)>> \o Join(Tail(parts), sep)

TextLine(tokens) == [kind |-> "text", text |-> tokens, headers |-> <<>>, rows |-> <<>>]

Blank == TextLine(<<>>)

Heading(mark, title) == TextLine(<<Lit(mark), Lit(title)>>)

\* tabulate(rows, headers=headers, tablefmt="pipe")
tabulate(rows, headers) == [kind |-> "table", text |-> <<>>, headers |-> headers, rows |-> rows]

Cells(names) == [i \in 1..Len(names) |-> <<Lit(names[i])>>]

\* int(x) of a float stored in hundredths
IntOf(v) == IF v >= 0 THEN v \div 100 ELSE -((-v) \div 100)

\* ', '.join(years) or 'None'
OutliersCell(years) ==
    IF years = <<>> THEN <<Lit("None")>>
    ELSE Join([i \in 1..Len(years) |-> <<YearTok(years[i])>>], ", ")

build_annual_table(years, vals, unit, current_label, current_val) ==
    LET headers  == <<<<Lit("")>>>> \o [i \in 1..Len(years) |-> <<YearTok(years[i])>>]
        row_vals == [i \in 1..Len(vals) |-> fmt_val(Hundredths(vals[i]), unit, FALSE)]
    IN  IF current_label # <<>> /\ current_val # None
        THEN [headers |-> Append(headers, current_label),
              row     |-> Append(row_vals, fmt_val(current_val, unit, FALSE))]
        ELSE [headers |-> headers, row |-> row_vals]

\* row = [name] + row; headers = [''] + headers[1:]; tabulate([row], headers)
AnnualTable(name, table) ==
    tabulate(<<<<<<Lit(name)>>>> \o table.row>>, <<<<Lit("")>>>> \o Tail(table.headers))

\* ["Price", ...] of the summary table, dashes for a record that is None
SummaryRow(name, record, secondary) ==
    IF record # None
    THEN <<<<Lit(name)>>,
           fmt_val(OptHundredths(Val(record).vs_yoy_pct), "percent", TRUE),
           fmt_val(OptHundredths(secondary), "percent", TRUE),
           fmt_val(OptHundredths(Val(record).cagr_5yr), "percent", FALSE)>>
    ELSE <<<<Lit(name)>>, Dash, Dash, Dash>>

\* the P/E summary line
PeSummary(pe) ==
    IF pe # None
    THEN TextLine(<<Lit("**P/E:** "), Lit("Trailing ")>>
                    \o fmt_val(OptHundredths(Val(pe).trailing_pe), "ratio", FALSE)
                    \o <<Lit(" | "), Lit("YoY ")>>
                    \o fmt_val(OptHundredths(Val(pe).vs_yoy_pct), "percent", TRUE)
                    \o <<Lit(" | "), Lit("vs 5yr Avg (")>>
                    \o fmt_val(OptHundredths(Val(pe).mean_5yr), "ratio", FALSE)
                    \o <<Lit("): ")>>
                    \o fmt_val(OptHundredths(Val(pe).vs_5yr_avg_pct), "percent", TRUE))
    ELSE TextLine(<<Lit("**P/E:** ")>> \o Dash)

\* the estimates summary line
EstimatesSummary(estimates) ==
    LET nq == Val(estimates).next_quarter
        analysts == IF Truthy(Val(nq).analyst_count)
                    THEN <<Lit(" | "), IntTok(IntOf(Val(Val(nq).analyst_count))), Lit(" analysts")>>
                    ELSE <<>>
    IN  IF estimates # None /\ nq # None /\ Val(nq).eps_avg # None
        THEN TextLine(<<Lit("**Estimates:** "), Lit("Latest actual EPS ")>>
                        \o fmt_val(OptHundredths(Val(estimates).latest_actual_eps), "dollars", FALSE)
                        \o <<Lit(" | "), Lit("Next Q consensus ")>>
                        \o fmt_val(OptHundredths(Val(nq).eps_avg), "dollars", FALSE)
                        \o <<Lit(" | "), Lit("Delta ")>>
                        \o fmt_val(OptHundredths(Val(estimates).delta_actual_vs_next_q_pct), "percent", TRUE)
                        \o analysts)
        ELSE TextLine(<<Lit("**Estimates:** ")>> \o Dash)

SummarySection(res) ==
    <<Heading("### ", "Summary"), Blank,
      tabulate(<<SummaryRow("Price", res.price,
                            IF res.price # None THEN Val(res.price).vs_3mo_pct ELSE None),
                 SummaryRow("EPS", res.eps,
                            IF res.eps # None THEN Val(res.eps).vs_prev_q_pct ELSE None),
                 SummaryRow("Revenue", res.revenue,
                            IF res.revenue # None THEN Val(res.revenue).vs_prev_q_pct ELSE None),
                 SummaryRow("Op. Margin", res.margin,
                            IF res.margin # None THEN Val(res.margin).vs_prev_q_pct ELSE None)>>,
               Cells(<<"Metric", "YoY", "3M / Prev Q", "5yr CAGR">>)),
      Blank, PeSummary(res.pe), Blank, EstimatesSummary(res.estimates), Blank>>

\* f"{a} ({b})"
Paren(a, b) == a \o <<Lit(" (")>> \o b \o <<Lit(")")>>

Placeholder(text) == <<TextLine(<<Lit(text)>>), Blank>>

\* the two tables of the section, for a record with annual vals
PriceTables(price) ==
    LET p == Val(price)
    IN  <<AnnualTable("Price", build_annual_table(p.annual_years, p.annual_values, "dollars",
                                                  <<Lit("Current")>>, Hundredths(p.current))),
          Blank,
          tabulate(<<<<fmt_val(Hundredths(p.current), "dollars", FALSE),
                       fmt_val(OptHundredths(p.mean_5yr), "dollars", FALSE),
                       fmt_val(OptHundredths(p.cagr_5yr), "percent", FALSE),
                       fmt_val(OptHundredths(p.vs_yoy_pct), "percent", TRUE),
                       fmt_val(OptHundredths(p.vs_3mo_pct), "percent", TRUE),
                       fmt_val(OptHundredths(p.cv), "percent", FALSE),
                       fmt_val(OptHundredths(p.slope), "ratio", FALSE),
                       Paren(fmt_val(Hundredths(p.high_52w), "dollars", FALSE),
                             fmt_val(OptHundredths(p.vs_52w_high_pct), "percent", TRUE)),
                       Paren(fmt_val(Hundredths(p.low_52w), "dollars", FALSE),
                             fmt_val(OptHundredths(p.vs_52w_low_pct), "percent", TRUE)),
                       OutliersCell(p.annual_outliers)>>>>,
                   Cells(<<"Current", "5yr Mean", "5yr CAGR", "YoY", "3M", "CV", "Slope",
                           "52w High", "52w Low", "Outliers">>)),
          Blank>>

PriceTrend(price) ==
    <<Heading("### ", "Price Trend"), Blank>> \o
    IF price # None /\ Val(price).annual_years # <<>>
    THEN PriceTables(price)
    ELSE Placeholder("*No price data available*")

\* the two tables of the section, for a record with annual vals
EpsTables(eps) ==
    LET e == Val(eps)
    IN  <<AnnualTable("EPS", build_annual_table(e.annual_years, e.annual_values, "dollars",
                                                <<Lit("TTM")>>, OptHundredths(e.ttm))),
          Blank,
          tabulate(<<<<fmt_val(Hundredths(e.latest), "dollars", FALSE),
                       fmt_val(OptHundredths(e.mean_5yr), "dollars", FALSE),
                       fmt_val(OptHundredths(e.cagr_5yr), "percent", FALSE),
                       fmt_val(OptHundredths(e.vs_yoy_pct), "percent", TRUE),
                       fmt_val(OptHundredths(e.vs_prev_q_pct), "percent", TRUE),
                       fmt_val(OptHundredths(e.cv), "percent", FALSE),
                       fmt_val(OptHundredths(e.slope), "ratio", FALSE),
                       OutliersCell(e.outlier_years)>>>>,
                   Cells(<<"Latest Q", "5yr Mean", "5yr CAGR", "YoY", "Prev Q", "CV", "Slope",
                           "Outliers">>)),
          Blank>>

EpsTrend(eps) ==
    <<Heading("### ", "EPS Trend"), Blank>> \o
    IF eps # None /\ Val(eps).annual_years # <<>>
    THEN EpsTables(eps)
    ELSE Placeholder("*No EPS data available*")

\* ytd_sum * (4 / ytd_num_quarters), in dollars
YtdAmount(x) == IF x = None THEN None ELSE Amount(Val(x).num, Val(x).den * 100)

\* the two tables of the section, for a record with annual vals
RevenueTables(revenue) ==
    LET r == Val(revenue)
        has_ytd == r.ytd_annualized # None /\ Val(r.ytd_annualized).num # 0
        current_label == IF has_ytd
                         THEN <<Lit("YTD Ann. ("), IntTok(r.ytd_num_quarters), Lit("Q)")>>
                         ELSE <<>>
        current_val   == IF has_ytd THEN YtdAmount(r.ytd_annualized) ELSE None
    IN  <<AnnualTable("Revenue", build_annual_table(r.annual_years, r.annual_values,
                                                    "dollars_large", current_label, current_val)),
          Blank,
          tabulate(<<<<fmt_val(Hundredths(r.latest), "dollars_large", FALSE),
                       fmt_val(OptHundredths(r.mean_5yr), "dollars_large", FALSE),
                       fmt_val(OptHundredths(r.cagr_5yr), "percent", FALSE),
                       fmt_val(OptHundredths(r.vs_yoy_pct), "percent", TRUE),
                       fmt_val(OptHundredths(r.vs_prev_q_pct), "percent", TRUE),
                       fmt_val(OptHundredths(r.cv), "percent", FALSE),
                       fmt_val(OptHundredths(r.slope), "ratio", FALSE),
                       OutliersCell(r.outlier_years)>>>>,
                   Cells(<<"Latest", "5yr Mean", "5yr CAGR", "YoY", "Prev Q", "CV", "Slope",
                           "Outliers">>)),
          Blank>>

RevenueTrend(revenue) ==
    <<Heading("### ", "Revenue Trend"), Blank>> \o
    IF revenue # None /\ Val(revenue).annual_years # <<>>
    THEN RevenueTables(revenue)
    ELSE Placeholder("*No revenue data available*")

\* the two tables of the section, for a record with annual vals
MarginTables(margin) ==
    LET m == Val(margin)
        has_ytd == m.ytd_margin # None
        current_label == IF has_ytd
                         THEN <<Lit("YTD ("), IntTok(m.ytd_num_quarters), Lit("Q)")>>
                         ELSE <<>>
    IN  <<AnnualTable("Op. Margin", build_annual_table(m.annual_years, m.annual_values,
                                                       "percent", current_label,
                                                       OptHundredths(m.ytd_margin))),
          Blank,
          tabulate(<<<<fmt_val(Hundredths(m.latest), "percent", FALSE),
                       fmt_val(OptHundredths(m.mean_5yr), "percent", FALSE),
                       fmt_val(OptHundredths(m.cagr_5yr), "percent", FALSE),
                       fmt_val(OptHundredths(m.vs_yoy_pct), "percent", TRUE),
                       fmt_val(OptHundredths(m.vs_prev_q_pct), "percent", TRUE),
                       fmt_val(OptHundredths(m.cv), "percent", FALSE),
                       fmt_val(OptHundredths(m.slope), "ratio", FALSE),
                       OutliersCell(m.outlier_years)>>>>,
                   Cells(<<"Latest", "5yr Mean", "5yr CAGR", "YoY (pp)", "Prev Q (pp)", "CV",
                           "Slope", "Outliers">>)),
          Blank>>

\* MarginTrend with the placeholder of the revenue section
MarginTrend_revenuetext(margin) ==
    <<Heading("### ", "Operating Margin Trend"), Blank>> \o
    IF margin # None /\ Val(margin).annual_years # <<>>
    THEN MarginTables(margin)
    ELSE Placeholder("*No revenue data available*")

MarginTrend(margin) ==
    <<Heading("### ", "Operating Margin Trend"), Blank>> \o
    IF margin # None /\ Val(margin).annual_years # <<>>
    THEN MarginTables(margin)
    ELSE Placeholder("*No operating margin data available*")

\* the two tables of the section, for a record with annual vals
PeTables(pe) ==
    LET p == Val(pe)
    IN  <<AnnualTable("P/E", build_annual_table(p.annual_years, p.annual_values, "ratio",
                                                <<Lit("Trailing")>>, OptHundredths(p.trailing_pe))),
          Blank,
          tabulate(<<<<fmt_val(OptHundredths(p.trailing_pe), "ratio", FALSE),
                       fmt_val(OptHundredths(p.mean_5yr), "ratio", FALSE),
                       fmt_val(OptHundredths(p.vs_5yr_avg_pct), "percent", TRUE),
                       fmt_val(OptHundredths(p.vs_yoy_pct), "percent", TRUE),
                       fmt_val(OptHundredths(p.cv), "percent", FALSE),
                       fmt_val(OptHundredths(p.slope), "ratio", FALSE),
                       OutliersCell(p.outlier_years)>>>>,
                   Cells(<<"Trailing", "5yr Mean", "vs 5yr Avg", "YoY", "CV", "Slope",
                           "Outliers">>)),
          Blank>>

\* PeTrend with the heading left out when there is nothing to show
PeTrend_noheading(pe) ==
    IF pe # None /\ Val(pe).annual_years # <<>>
    THEN <<Heading("### ", "P/E Trend"), Blank>> \o PeTables(pe)
    ELSE Placeholder("*No P/E data available (negative or insufficient earnings)*")

PeTrend(pe) ==
    <<Heading("### ", "P/E Trend"), Blank>> \o
    IF pe # None /\ Val(pe).annual_years # <<>>
    THEN PeTables(pe)
    ELSE Placeholder("*No P/E data available (negative or insufficient earnings)*")

\* [estimates.get('next_quarter'), estimates.get('current_fiscal_year'), estimates.get('next_fiscal_year')]
HorizonEntries(estimates) ==
    <<Val(estimates).next_quarter, Val(estimates).current_fiscal_year,
      Val(estimates).next_fiscal_year>>

\* f"{label} ({date})"
HorizonLabel(est) == Paren(HorizonText(est.horizon), DateText(est.date))

\* int(count) if count else the dash
AnalystsCell(count) == IF Truthy(count) THEN <<IntTok(IntOf(Val(count)))>> ELSE Dash

\* the 30d revision direction of an entry with a consensus
Revision30d(est) ==
    IF est.revision_30d # None
    THEN LET diff == Val(est.eps_avg) - Val(est.revision_30d)
         IN  IF diff # 0 THEN fmt_val(Hundredths(diff), "dollars", TRUE) ELSE <<Lit("flat")>>
    ELSE Dash

EpsEstimateRow(est) ==
    <<HorizonLabel(est),
      fmt_val(OptHundredths(est.eps_avg), "dollars", FALSE),
      fmt_val(OptHundredths(est.eps_low), "dollars", FALSE),
      fmt_val(OptHundredths(est.eps_high), "dollars", FALSE),
      AnalystsCell(est.analyst_count),
      Revision30d(est)>>

RevenueEstimateRow(est) ==
    <<HorizonLabel(est),
      fmt_val(OptHundredths(est.revenue_avg), "dollars_large", FALSE),
      fmt_val(OptHundredths(est.revenue_low), "dollars_large", FALSE),
      fmt_val(OptHundredths(est.revenue_high), "dollars_large", FALSE),
      AnalystsCell(est.revenue_analyst_count)>>

BeatMissRow(bm) ==
    <<IF bm.date = None THEN NoneCell ELSE <<DateTok(Val(bm.date))>>,
      fmt_val(Hundredths(bm.reported), "dollars", FALSE),
      fmt_val(Hundredths(bm.estimated), "dollars", FALSE),
      fmt_val(Hundredths(bm.surprise), "dollars", TRUE),
      fmt_val(OptHundredths(bm.surprise_pct), "percent", TRUE)>>

\* eps.get('beat_miss_history', []) if eps else []
BeatMissHistory(eps) == IF eps # None THEN Val(eps).beat_miss_history ELSE <<>>

\* the lines under the heading when the estimates record is present
EstimatesTables(estimates, eps) ==
    LET e == Val(estimates)
        HasEps(opt) == opt # None /\ Val(opt).eps_avg # None
        HasRev(opt) == opt # None /\ Val(opt).revenue_avg # None
        with_eps  == SelectSeq(HorizonEntries(estimates), HasEps)
        with_rev  == SelectSeq(HorizonEntries(estimates), HasRev)
        est_rows  == [i \in 1..Len(with_eps) |-> EpsEstimateRow(Val(with_eps[i]))]
        rev_rows  == [i \in 1..Len(with_rev) |-> RevenueEstimateRow(Val(with_rev[i]))]
        beat_miss == BeatMissHistory(eps)
        bm_rows   == [i \in 1..Len(beat_miss) |-> BeatMissRow(beat_miss[i])]
    IN  (IF e.latest_actual_eps # None
         THEN <<TextLine(<<Lit("**Latest Actual EPS:** ")>>
                           \o fmt_val(OptHundredths(e.latest_actual_eps), "dollars", FALSE)), Blank>>
         ELSE <<>>)
        \o (IF est_rows # <<>>
            THEN <<tabulate(est_rows, Cells(<<"Horizon", "Consensus", "Low", "High", "Analysts",
                                              "30d Revision">>)), Blank>>
            ELSE <<>>)
        \o (IF rev_rows # <<>>
            THEN <<TextLine(<<Lit("**Revenue Estimates:**")>>), Blank,
                   tabulate(rev_rows, Cells(<<"Horizon", "Consensus", "Low", "High", "Analysts">>)),
                   Blank>>
            ELSE <<>>)
        \o (IF beat_miss # <<>>
            THEN <<TextLine(<<Lit("**Recent Beat/Miss History:**")>>), Blank,
                   tabulate(bm_rows, Cells(<<"Quarter", "Reported", "Estimated", "Surprise",
                                             "Surprise %">>)),
                   Blank>>
            ELSE <<>>)

EstimatesSection(estimates, eps) ==
    <<Heading("### ", "EPS Estimates"), Blank>> \o
    IF estimates # None
    THEN EstimatesTables(estimates, eps)
    ELSE Placeholder("*No estimates data available*")

Rule == <<TextLine(<<Lit("---")>>), Blank>>

\* all_results.get(ticker)
GetResults(by_ticker, ticker) ==
    IF ticker \in DOMAIN by_ticker THEN Some(by_ticker[ticker]) ELSE None

\* one pass of the loop over tickers
TickerSection(ticker, by_ticker) ==
    LET found   == GetResults(by_ticker, ticker)
        res == Val(found)
    IN  IF found = None
        THEN <<Heading("## ", ticker), Blank, TextLine(<<Lit("Data unavailable.")>>), Blank>> \o Rule
        ELSE <<Heading("## ", ticker), Blank>>
                 \o SummarySection(res)
                 \o PriceTrend(res.price)
                 \o EpsTrend(res.eps)
                 \o RevenueTrend(res.revenue)
                 \o MarginTrend(res.margin)
                 \o PeTrend(res.pe)
                 \o EstimatesSection(res.estimates, res.eps)
                 \o Rule

RECURSIVE TickerSections(_, _)
TickerSections(names, by_ticker) ==
    IF names = <<>> THEN <<>>
    ELSE TickerSection(Head(names), by_ticker) \o TickerSections(Tail(names), by_ticker)

\* the file written: its name and its lines, joined by newlines
generate_screening_report(names, by_ticker, today) ==
    [filename |-> <<Lit("screening_"), DateTok(today), Lit(".md")>>,
     lines    |-> <<TextLine(<<Lit("# Stock Screening "), Lit("em-dash"), Lit(" "), DateTok(today)>>),
                    Blank,
                    TextLine(<<Lit("**Tickers:** ")>>
                               \o Join([i \in 1..Len(names) |-> <<Lit(names[i])>>], ", ")),
                    Blank>> \o Rule \o TickerSections(names, by_ticker)]

\* the loop body of main for one ticker
ProcessTicker(payloads, year_now) ==
    LET price == calculate_price_stats(payloads.price_monthly)
        eps   == calculate_eps_stats(payloads.earnings)
    IN  [price     |-> price,
         eps       |-> eps,
         revenue   |-> calculate_revenue_stats(payloads.income, year_now),
         margin    |-> calculate_margin_stats(payloads.income, year_now),
         pe        |-> calculate_pe_stats(price, eps),
         estimates |-> calculate_estimates_stats(payloads.earnings_estimates, payloads.earnings)]

\* ------------------------------------------------------------------------
\* Specification of the primitives: an input sequence, then one call
\* ------------------------------------------------------------------------
RichVals == {-100, 0, 100, 300}

NarrowVals == {100, 300}

Opt(S) == {None} \cup {Some(v) : v \in S}

SeqsUpTo(n, S) == UNION {[1..k -> S] : k \in 0..n}

PrimInputs == SeqsUpTo(MaxLen, Opt(RichVals)) \cup SeqsUpTo(MaxLongLen, Opt(NarrowVals))

NoData == [price_monthly |-> None, earnings |-> None,
           earnings_estimates |-> None, income |-> None]

NoResults == [price |-> None, eps |-> None, revenue |-> None,
              margin |-> None, pe |-> None, estimates |-> None]

\* {}
EmptyDict == [key \in {} |-> None]

\* datetime.now().year of a day YYYYMMDD
YearOfDay(day) == day \div 10000

\* a function is called on its own: no run of main is under way
NoRun ==
    /\ argv = <<>>
    /\ tickers = <<>>
    /\ ticker_no = 0
    /\ endpoint_i = 0
    /\ calls = <<>>
    /\ all_results = EmptyDict
    /\ report = None
    /\ now_date = 20240615
    /\ status = None

\* the stock screening script runs: the two other scripts do not
NoScript ==
    /\ args_count = 0
    /\ all_posts = EmptyDict
    /\ shown = EmptyDict
    /\ loop_no = 0
    /\ url = None

InitPrim ==
    /\ values \in PrimInputs
    /\ result = None
    /\ pc = "input"
    /\ data = NoData
    /\ now_year = 2024
    /\ results = NoResults
    /\ NoRun
    /\ NoScript

CallCagr ==
    /\ pc = "input"
    /\ result' = calculate_cagr(values)
    /\ pc' = "cagr"
    /\ UNCHANGED <<values, data, now_year, results>>
    /\ UNCHANGED run_vars
    /\ UNCHANGED script_vars

CallAvg ==
    /\ pc = "input"
    /\ result' = calculate_avg(values)
    /\ pc' = "avg"
    /\ UNCHANGED <<values, data, now_year, results>>
    /\ UNCHANGED run_vars
    /\ UNCHANGED script_vars

CallCv ==
    /\ pc = "input"
    /\ result' = calculate_cv(values)
    /\ pc' = "cv"
    /\ UNCHANGED <<values, data, now_year, results>>
    /\ UNCHANGED run_vars
    /\ UNCHANGED script_vars

CallSlope ==
    /\ pc = "input"
    /\ result' = calculate_slope(values)
    /\ pc' = "slope"
    /\ UNCHANGED <<values, data, now_year, results>>
    /\ UNCHANGED run_vars
    /\ UNCHANGED script_vars

CallRecentDelta ==
    /\ pc = "input"
    /\ result' = calculate_recent_delta(values)
    /\ pc' = "delta"
    /\ UNCHANGED <<values, data, now_year, results>>
    /\ UNCHANGED run_vars
    /\ UNCHANGED script_vars

CallOutliers ==
    /\ pc = "input"
    /\ result' = detect_outliers(values)
    /\ pc' = "outliers"
    /\ UNCHANGED <<values, data, now_year, results>>
    /\ UNCHANGED run_vars
    /\ UNCHANGED script_vars

NextPrim ==
    \/ CallCagr
    \/ CallAvg
    \/ CallCv
    \/ CallSlope
    \/ CallRecentDelta
    \/ CallOutliers

SpecPrim == InitPrim /\ [][NextPrim]_vars

\* ------------------------------------------------------------------------
\* Specification of fmt_val: a value, a unit tag and is_delta, then one call
\* ------------------------------------------------------------------------
FmtUnits == {"dollars", "dollars_large", "percent", "ratio", ""}

\* values of every sign in hundredths, and None
FmtSmallValues == {None} \cup {Hundredths(v) : v \in {-12345, -150, -1, 0, 5, 150, 12345}}

\* whole dollars around the two thresholds of dollars_large, of either sign
FmtLargeValues ==
    {Amount(sign * v, 1) : sign \in {-1, 1},
                           v \in {999999, 1000000, 1000001, 2500000, 999999999,
                                  1000000000, 1000000001, 1500000000}}

FmtInputs ==
    {<<v, unit, is_delta>> : v \in FmtSmallValues, unit \in FmtUnits, is_delta \in BOOLEAN}
        \cup {<<v, "dollars_large", is_delta>> : v \in FmtLargeValues, is_delta \in BOOLEAN}

InitFmt ==
    /\ values \in FmtInputs
    /\ result = None
    /\ pc = "input"
    /\ data = NoData
    /\ now_year = 2024
    /\ results = NoResults
    /\ NoRun
    /\ NoScript

CallFmtVal ==
    /\ pc = "input"
    /\ result' = fmt_val(values[1], values[2], values[3])
    /\ pc' = "fmt_val"
    /\ UNCHANGED <<values, data, now_year, results>>
    /\ UNCHANGED run_vars
    /\ UNCHANGED script_vars

NextFmt == CallFmtVal

SpecFmt == InitFmt /\ [][NextFmt]_vars

\* ------------------------------------------------------------------------
\* The per-ticker pipeline of main: the payloads are fetched, then the six
\* calculators run in the order of main's loop body.
\* ------------------------------------------------------------------------
Monthly(d, c) == [date |-> d, close |-> c]

Quarter(d, rep, est) == [fiscalDateEnding |-> d, reportedEPS |-> rep, estimatedEPS |-> est]

Annual(d, rep) == [fiscalDateEnding |-> d, reportedEPS |-> rep]

Report(d, rev, oi) == [fiscalDateEnding |-> d, totalRevenue |-> rev, operatingIncome |-> oi]

Estimate(h, avg) ==
    [date          |-> Some(202406),
     horizon       |-> h,
     eps_estimate_average |-> avg,
     eps_estimate_high    |-> Num(250),
     eps_estimate_low     |-> Num(50),
     eps_estimate_analyst_count |-> Num(1200),
     eps_estimate_average_7_days_ago  |-> avg,
     eps_estimate_average_30_days_ago |-> Num(90),
     eps_estimate_average_60_days_ago |-> Text("None"),
     eps_estimate_average_90_days_ago |-> Missing,
     eps_estimate_revision_up_trailing_7_days    |-> Num(100),
     eps_estimate_revision_down_trailing_7_days  |-> Num(0),
     eps_estimate_revision_up_trailing_30_days   |-> Missing,
     eps_estimate_revision_down_trailing_30_days |-> Text(""),
     revenue_estimate_average |-> Num(500000),
     revenue_estimate_high    |-> Num(600000),
     revenue_estimate_low     |-> Text("None"),
     revenue_estimate_analyst_count |-> Num(1000)]

\* an entry of the estimates list without a date
EstimateNoDate(h, avg) == [Estimate(h, avg) EXCEPT !.date = None]

PricePayload(series) == Some([time_series |-> series])

EarningsPayload(q, a) == Some([quarterlyEarnings |-> q, annualEarnings |-> a])

IncomePayload(a, q) == Some([annualReports |-> a, quarterlyReports |-> q])

EstimatesPayload(e) == Some([estimates |-> e])

\* year-end closes 2021: 1.50 and 2022: 1.30
BasicSeries == <<Monthly(202212, Num(130)), Monthly(202112, Num(150))>>

BasicQuarterly ==
    <<Quarter(Some(202403), Num(100), Num(90)), Quarter(Some(202312), Num(110), Num(100)),
      Quarter(Some(202309), Num(90), Num(100)), Quarter(Some(202306), Num(80), Num(80))>>

BasicAnnual == <<Annual(Some(202312), Num(400)), Annual(Some(202212), Num(300)),
                 Annual(Some(202112), Num(200))>>

BasicReports == <<Report(Some(202312), Num(2000), Num(400)), Report(Some(202212), Num(1000), Num(-100))>>

BasicQuarterlyReports == <<Report(Some(202403), Num(600), Num(120)), Report(Some(202312), Num(500), Num(100))>>

BasicEstimates == <<Estimate(Some(<<"Next", "Quarter">>), Num(120)),
                    Estimate(Some(<<"current", "fiscal", "year">>), Num(450))>>

BasicPrice == PricePayload(BasicSeries)

BasicEarnings == EarningsPayload(BasicQuarterly, BasicAnnual)

BasicIncome == IncomePayload(BasicReports, BasicQuarterlyReports)

BasicEst == EstimatesPayload(BasicEstimates)

Data(p, e, s, i) == [price_monthly |-> p, earnings |-> e, earnings_estimates |-> s, income |-> i]

\* the year before the fixed one also occurs as the wall-clock year
NowYears == {2023, 2024}

\* the dates are dict keys
DistinctDates(s) == \A i, j \in 1..Len(s) : s[i].date = s[j].date => i = j

\* the n months up to and including the month d (YYYYMM), newest first
RECURSIVE MonthsBack(_, _)
MonthsBack(d, n) ==
    IF n = 0 THEN <<>>
    ELSE <<d>> \o MonthsBack(IF MonthOf(d) = 1 THEN d - 89 ELSE d - 1, n - 1)

\* short series: every order, parseable and unparseable closes
ShortCloses == {Text("None"), Num(100), Num(200)}

ShortSeries ==
    LET dates   == SeqRange(MonthsBack(202401, MaxShortMonths))
        entries == {Monthly(d, c) : d \in dates, c \in ShortCloses}
    IN  {s \in SeqsUpTo(MaxShortMonths, entries) : DistinctDates(s)}

\* year-end series: n Decembers up to 2023 at 1.00, one of them at 2.00
\* (position 0: none), either order, with or without a later month of 2024
YearEndSeries ==
    LET Decs(n, hi) == [i \in 1..n |-> Monthly((2024 - i) * 100 + 12,
                                                IF i = hi THEN Num(200) ELSE Num(100))]
        base == UNION {{Decs(n, hi) : hi \in 0..n} : n \in 0..MaxYears}
    IN  UNION {{s, Reverse(s), <<Monthly(202406, Num(300))>> \o s,
                Reverse(s) \o <<Monthly(202406, Num(300))>>} : s \in base}

\* monthly series: n months up to June 2024 at 2.00, one month at 3.00 and
\* one at 0 (position 0: no such month); the zero sits where a change is
\* measured from (the newest month, 3 months back, 12 months back)
MonthlySeries ==
    LET Run(n, hi, lo) ==
            LET ds == MonthsBack(202406, n)
            IN  [i \in 1..n |-> Monthly(ds[i], IF i = hi THEN Num(300)
                                               ELSE IF i = lo THEN Num(0)
                                               ELSE Num(200))]
    IN  UNION {{Run(n, hi, lo) : hi \in {0, 1, 2, n}, lo \in {0, 1, 4, 13} \cap (0..n)}
               : n \in 0..MaxMonths}

\* the current close between the lowest and the highest of the window, and
\* the same closes with the current one the lowest and the highest
RangeSeries ==
    {<<Monthly(202406, Num(c)), Monthly(202405, Num(100)), Monthly(202404, Num(300))>> :
        c \in {100, 150, 300}}

AnnualNarrow == {Annual(Some(202112), Num(5)), Annual(Some(202212), Num(-1))}

AnnualUnparseable == Annual(Some(202312), Text("None"))

AnnualRich == AnnualNarrow \cup {AnnualUnparseable, Annual(None, Num(5)),
                                 Annual(Some(202212), Num(10)), Annual(Some(202012), Num(0))}

\* long lists of parseable entries, the same after an unparseable first
\* entry, and short lists of every kind of entry
AnnualLists ==
    SeqsUpTo(MaxAnnual, AnnualNarrow)
        \cup {<<AnnualUnparseable>> \o s : s \in SeqsUpTo(MaxAnnual - 1, AnnualNarrow)}
        \cup SeqsUpTo(MaxAnnualRich, AnnualRich)

QuarterEntries == {Quarter(Some(202403), Num(100), Num(90)),
                   Quarter(Some(202312), Text("None"), Num(100)),
                   Quarter(None, Num(0), Num(0))}

QuarterLists == SeqsUpTo(MaxQuarterly, QuarterEntries)

ReportNarrow == {Report(Some(202312), Num(2000), Num(400)),
                 Report(Some(202212), Num(1000), Num(-100))}

ReportUnparseable == Report(Some(202112), Text("None"), Num(100))

ReportRich == ReportNarrow \cup {ReportUnparseable, Report(None, Num(1000), Num(100)),
                                 Report(Some(202012), Num(0), Num(50)),
                                 Report(Some(202412), Num(500), Missing)}

ReportLists ==
    SeqsUpTo(MaxAnnual, ReportNarrow)
        \cup {<<ReportUnparseable>> \o s : s \in SeqsUpTo(MaxAnnual - 1, ReportNarrow)}
        \cup SeqsUpTo(MaxAnnualRich, ReportRich)

QuarterReportEntries == {Report(Some(202403), Num(600), Num(120)),
                         Report(Some(202312), Num(0), Num(50)),
                         Report(Some(202409), Missing, Text("None"))}

QuarterReportLists == SeqsUpTo(MaxQuarterly, QuarterReportEntries)

EstimateEntries == {Estimate(Some(<<"next", "quarter">>), Num(120)),
                    EstimateNoDate(Some(<<" ", "Next", "Quarter", " ">>), Num(0)),
                    Estimate(Some(<<"next", "fiscal", "year">>), Num(500)),
                    Estimate(Some(<<"Current", "Fiscal", "Year">>), Text("None")),
                    Estimate(Some(<<"next", "quarter", "next", "fiscal", "year">>), Num(80)),
                    Estimate(None, Num(100))}

EstimateLists == SeqsUpTo(MaxEstimates, EstimateEntries)

\* every subset of the four payloads missing
InputsAnyMissing ==
    /\ data \in {Data(p, e, s, i) : p \in {None, BasicPrice}, e \in {None, BasicEarnings},
                                    s \in {None, BasicEst}, i \in {None, BasicIncome}}
    /\ now_year = 2024

InputsPrice ==
    /\ \E series \in ShortSeries \cup YearEndSeries \cup MonthlySeries \cup RangeSeries :
           data = Data(PricePayload(series), BasicEarnings, None, None)
    /\ now_year = 2024

InputsAnnualEarnings ==
    /\ \E annual \in AnnualLists :
           data = Data(BasicPrice, EarningsPayload(BasicQuarterly, annual), None, None)
    /\ now_year = 2024

InputsQuarterlyEarnings ==
    /\ \E quarterly \in QuarterLists, annual \in {<<>>, BasicAnnual} :
           data = Data(BasicPrice, EarningsPayload(quarterly, annual), BasicEst, None)
    /\ now_year = 2024

InputsAnnualReports ==
    /\ \E annual \in ReportLists :
           data = Data(None, None, None, IncomePayload(annual, BasicQuarterlyReports))
    /\ now_year = 2024

InputsQuarterlyReports ==
    /\ \E quarterly \in QuarterReportLists :
           data = Data(None, None, None, IncomePayload(BasicReports, quarterly))
    /\ now_year \in NowYears

\* zero closes, zero EPS: the denominators of the price and P/E ratios at 0
ZeroSeries == {<<Monthly(202406, Num(0)), Monthly(202312, Num(0)), Monthly(202212, Num(0))>>,
               <<Monthly(202406, Num(100)), Monthly(202312, Num(100)), Monthly(202212, Num(0))>>}

ZeroEarnings ==
    EarningsPayload(<<Quarter(Some(202403), Num(0), Num(0)), Quarter(Some(202312), Num(0), Num(0)),
                      Quarter(Some(202309), Num(0), Num(10)), Quarter(Some(202306), Num(0), Num(0))>>,
                    <<Annual(Some(202312), Num(0)), Annual(Some(202212), Num(300))>>)

\* four quarters of losses
LossEarnings ==
    EarningsPayload(<<Quarter(Some(202403), Num(-20), Num(-10)), Quarter(Some(202312), Num(-30), Num(-30)),
                      Quarter(Some(202309), Num(-25), Num(10)), Quarter(Some(202306), Num(-20), Num(0))>>,
                    BasicAnnual)

InputsZero ==
    /\ \E series \in ZeroSeries, e \in {BasicEarnings, ZeroEarnings, LossEarnings} :
           data = Data(PricePayload(series), e, BasicEst, BasicIncome)
    /\ now_year = 2024

InputsEstimates ==
    /\ \E estimates \in EstimateLists, e \in {None, BasicEarnings} :
           data = Data(None, e, EstimatesPayload(estimates), None)
    /\ now_year = 2024

\* ------------------------------------------------------------------------
\* fetch_screening_data: the API calls of one ticker and the sleeps between
\* them, recorded in calls in the order they are made
\* ------------------------------------------------------------------------
\* seconds between API calls
API_DELAY == 12

endpoints_incomefirst ==
    <<[key |-> "income",             function |-> "INCOME_STATEMENT"],
      [key |-> "price_monthly",      function |-> "TIME_SERIES_MONTHLY_ADJUSTED"],
      [key |-> "earnings",           function |-> "EARNINGS"],
      [key |-> "earnings_estimates", function |-> "EARNINGS_ESTIMATES"]>>

endpoints ==
    <<[key |-> "price_monthly",      function |-> "TIME_SERIES_MONTHLY_ADJUSTED"],
      [key |-> "earnings",           function |-> "EARNINGS"],
      [key |-> "earnings_estimates", function |-> "EARNINGS_ESTIMATES"],
      [key |-> "income",             function |-> "INCOME_STATEMENT"]>>

\* fetch_alpha_vantage(url) was called; ok: it returned a payload
CallEvent(ticker, function, ok) ==
    [kind |-> "call", ticker |-> ticker, function |-> function, ok |-> ok, seconds |-> 0]

\* time.sleep(seconds) was called
SleepEvent(seconds) ==
    [kind |-> "sleep", ticker |-> "", function |-> "", ok |-> TRUE, seconds |-> seconds]

\* d[key] = v
DictPut(d, key, v) == [x \in DOMAIN d \cup {key} |-> IF x = key THEN v ELSE d[x]]

\* the calls and sleeps of fetch_screening_data(ticker) that returned payloads
FetchLog(ticker, payloads) ==
    LET Step(n) == <<CallEvent(ticker, endpoints[n].function, payloads[endpoints[n].key] # None)>>
                       \o (IF n - 1 < Len(endpoints) - 1 THEN <<SleepEvent(API_DELAY)>> ELSE <<>>)
    IN  Step(1) \o Step(2) \o Step(3) \o Step(4)

Init ==
    /\ values = <<>>
    /\ result = None
    /\ pc = "fetched"
    /\ results = NoResults
    /\ argv = <<"AAPL">>
    /\ tickers = <<"AAPL">>
    /\ ticker_no = 1
    /\ endpoint_i = 3
    /\ all_results = EmptyDict
    /\ report = None
    /\ status = None
    /\ \/ InputsAnyMissing
       \/ InputsPrice
       \/ InputsAnnualEarnings
       \/ InputsQuarterlyEarnings
       \/ InputsAnnualReports
       \/ InputsQuarterlyReports
       \/ InputsEstimates
       \/ InputsZero
    /\ now_date = now_year * 10000 + 615
    /\ calls = FetchLog("AAPL", data)
    /\ NoScript

\* the calculator sorting the payload's own series instead of a list of its own
CalcPrice_sortspayload ==
    /\ pc = "fetched"
    /\ results' = [results EXCEPT !.price = calculate_price_stats(data.price_monthly)]
    /\ pc' = "price"
    /\ data' = IF data.price_monthly = None THEN data
               ELSE [data EXCEPT !.price_monthly =
                        PricePayload(SortNewestFirst(Val(data.price_monthly).time_series))]
    /\ UNCHANGED <<values, result, now_year>>
    /\ UNCHANGED run_vars
    /\ UNCHANGED script_vars

\* results['price'] = calculate_price_stats(data.get('price_monthly'))
CalcPrice ==
    /\ pc = "fetched"
    /\ results' = [results EXCEPT !.price = calculate_price_stats(data.price_monthly)]
    /\ pc' = "price"
    /\ UNCHANGED <<values, result, data, now_year>>
    /\ UNCHANGED run_vars
    /\ UNCHANGED script_vars

\* results['eps'] = calculate_eps_stats(data.get('earnings'))
CalcEps ==
    /\ pc = "price"
    /\ results' = [results EXCEPT !.eps = calculate_eps_stats(data.earnings)]
    /\ pc' = "eps"
    /\ UNCHANGED <<values, result, data, now_year>>
    /\ UNCHANGED run_vars
    /\ UNCHANGED script_vars

\* results['revenue'] = calculate_revenue_stats(data.get('income'))
CalcRevenue ==
    /\ pc = "eps"
    /\ results' = [results EXCEPT !.revenue = calculate_revenue_stats(data.income, now_year)]
    /\ pc' = "revenue"
    /\ UNCHANGED <<values, result, data, now_year>>
    /\ UNCHANGED run_vars
    /\ UNCHANGED script_vars

\* results['margin'] = calculate_margin_stats(data.get('income'))
CalcMargin ==
    /\ pc = "revenue"
    /\ results' = [results EXCEPT !.margin = calculate_margin_stats(data.income, now_year)]
    /\ pc' = "margin"
    /\ UNCHANGED <<values, result, data, now_year>>
    /\ UNCHANGED run_vars
    /\ UNCHANGED script_vars

\* results['pe'] = calculate_pe_stats(results['price'], results['eps'])
CalcPe ==
    /\ pc = "margin"
    /\ results' = [results EXCEPT !.pe = calculate_pe_stats(results.price, results.eps)]
    /\ pc' = "pe"
    /\ UNCHANGED <<values, result, data, now_year>>
    /\ UNCHANGED run_vars
    /\ UNCHANGED script_vars

\* results['estimates'] = calculate_estimates_stats(data.get('earnings_estimates'), data.get('earnings'))
CalcEstimates ==
    /\ pc = "pe"
    /\ results' = [results EXCEPT !.estimates =
                       calculate_estimates_stats(data.earnings_estimates, data.earnings)]
    /\ pc' = "estimates"
    /\ UNCHANGED <<values, result, data, now_year>>
    /\ UNCHANGED run_vars
    /\ UNCHANGED script_vars

\* all_results[ticker] = results, then, after the last ticker,
\* generate_screening_report(tickers, all_results)
GenerateReport ==
    /\ pc = "estimates"
    /\ all_results' = DictPut(all_results, tickers[ticker_no], results)
    /\ report' = Some(generate_screening_report(tickers, all_results', now_date))
    /\ status' = Some(0)
    /\ pc' = "report"
    /\ UNCHANGED <<values, result, data, now_year, results>>
    /\ UNCHANGED <<argv, tickers, ticker_no, endpoint_i, calls, now_date>>
    /\ UNCHANGED script_vars

Next ==
    \/ CalcPrice
    \/ CalcEps
    \/ CalcRevenue
    \/ CalcMargin
    \/ CalcPe
    \/ CalcEstimates
    \/ GenerateReport

Spec == Init /\ [][Next]_vars

\* ------------------------------------------------------------------------
\* Specification of generate_screening_report: a ticker list and the
\* records of each ticker, then one call
\* ------------------------------------------------------------------------
BasicData == Data(BasicPrice, BasicEarnings, BasicEst, BasicIncome)

\* the six records of a ticker whose four payloads are the basic ones
FullResults == ProcessTicker(BasicData, 2024)

\* every combination of the six records being None
RecordFields == {"price", "eps", "revenue", "margin", "pe", "estimates"}

RecordCombos ==
    {[f \in RecordFields |-> IF f \in absent THEN None ELSE FullResults[f]] :
        absent \in SUBSET RecordFields}

ReportTickers == {"AAPL", "MSFT"}

\* the non-empty ticker lists, a ticker possibly more than once
TickerLists == SeqsUpTo(MaxTickers, ReportTickers) \ {<<>>}

InitReport ==
    /\ values = <<>>
    /\ result = None
    /\ pc = "input"
    /\ data = NoData
    /\ now_year = 2024
    /\ results = NoResults
    /\ argv = <<>>
    /\ tickers \in TickerLists
    /\ ticker_no = 0
    /\ endpoint_i = 0
    /\ calls = <<>>
    /\ \E combo \in RecordCombos :
           all_results = [t \in SeqRange(tickers) |-> IF t = "AAPL" THEN combo ELSE FullResults]
    /\ report = None
    /\ now_date = 20240615
    /\ status = None
    /\ NoScript

CallGenerateReport ==
    /\ pc = "input"
    /\ report' = Some(generate_screening_report(tickers, all_results, now_date))
    /\ pc' = "written"
    /\ UNCHANGED <<values, result, data, now_year, results>>
    /\ UNCHANGED <<argv, tickers, ticker_no, endpoint_i, calls, all_results, now_date, status>>
    /\ UNCHANGED script_vars

NextReport == CallGenerateReport

SpecReport == InitReport /\ [][NextReport]_vars

\* ------------------------------------------------------------------------
\* Specification of main: the command line, then the API calls and sleeps
\* of each ticker, its records, and the report
\* ------------------------------------------------------------------------
TickerLimit_six == 5 + 1

\* if len(tickers) > 5: tickers = tickers[:5]
TickerLimit == 5

\* t.upper() of the words that occur on the command line
Upper(word) ==
    CASE word = "aapl" -> "AAPL"
      [] word = "Goog" -> "GOOG"
      [] word = "tsla" -> "TSLA"
      [] word = "ibm"  -> "IBM"
      [] word = "nvda" -> "NVDA"
      [] word = "amzn" -> "AMZN"
      [] OTHER         -> word

\* tickers = [t.upper() for t in sys.argv[1:]], cut to the first five
CappedTickers(args) ==
    LET upper == [n \in 1..Len(args) |-> Upper(args[n])]
    IN  IF Len(upper) > TickerLimit THEN Take(upper, TickerLimit) ELSE upper

\* command lines of every length up to MaxArgs; aapl occurs twice
ArgPool == <<"aapl", "MSFT", "Goog", "AAPL", "tsla", "ibm", "nvda", "amzn">>

ArgvInputs == {Take(ArgPool, n) : n \in 0..MaxArgs}

\* the failed calls so far
Failures(log) == Len(SelectSeq(log, LAMBDA e : e.kind = "call" /\ ~e.ok))

\* what fetch_alpha_vantage returns: the payload of the endpoint, or None
\* when the call failed
FetchOutcomes(key) == {None, BasicData[key]}

InitMain ==
    /\ values = <<>>
    /\ result = None
    /\ pc = "main"
    /\ data = EmptyDict
    /\ now_year = 2024
    /\ results = NoResults
    /\ argv \in ArgvInputs
    /\ tickers = <<>>
    /\ ticker_no = 0
    /\ endpoint_i = 0
    /\ calls = <<>>
    /\ all_results = EmptyDict
    /\ report = None
    /\ now_date = 20240615
    /\ status = None
    /\ NoScript

\* if len(sys.argv) < 2: print the usage and sys.exit(1)
MainUsage ==
    /\ pc = "main"
    /\ Len(argv) < 1
    /\ status' = Some(1)
    /\ pc' = "exit"
    /\ UNCHANGED <<values, result, data, now_year, results>>
    /\ UNCHANGED <<argv, tickers, ticker_no, endpoint_i, calls, all_results, report, now_date>>
    /\ UNCHANGED script_vars

\* the ticker list is built and main enters its loop: the first
\* fetch_screening_data starts with data = {}
MainStart ==
    /\ pc = "main"
    /\ Len(argv) >= 1
    /\ tickers' = CappedTickers(argv)
    /\ ticker_no' = 1
    /\ endpoint_i' = 0
    /\ data' = EmptyDict
    /\ all_results' = EmptyDict
    /\ pc' = "fetch"
    /\ UNCHANGED <<values, result, now_year, results, argv, calls, report, now_date, status>>
    /\ UNCHANGED script_vars

\* result = fetch_alpha_vantage(url); data[key] = result or None
ApiCall ==
    /\ pc = "fetch"
    /\ LET endpoint == endpoints[endpoint_i + 1]
       IN  \E outcome \in FetchOutcomes(endpoint.key) :
               /\ outcome = None => Failures(calls) < MaxFailures
               /\ calls' = Append(calls, CallEvent(tickers[ticker_no], endpoint.function,
                                                   outcome # None))
               /\ data' = DictPut(data, endpoint.key, outcome)
    /\ pc' = IF endpoint_i < Len(endpoints) - 1 THEN "sleep" ELSE "returned"
    /\ UNCHANGED <<values, result, now_year, results>>
    /\ UNCHANGED <<argv, tickers, ticker_no, endpoint_i, all_results, report, now_date, status>>
    /\ UNCHANGED script_vars

\* if i < len(endpoints) - 1: time.sleep(API_DELAY)
RateLimitSleep ==
    /\ pc = "sleep"
    /\ calls' = Append(calls, SleepEvent(API_DELAY))
    /\ endpoint_i' = endpoint_i + 1
    /\ pc' = "fetch"
    /\ UNCHANGED <<values, result, data, now_year, results>>
    /\ UNCHANGED <<argv, tickers, ticker_no, all_results, report, now_date, status>>
    /\ UNCHANGED script_vars

\* fetch_screening_data has returned: the six records of the ticker are
\* computed and stored; the loop goes on to the next ticker, if any
StoreResults ==
    /\ pc = "returned"
    /\ results' = ProcessTicker(data, now_year)
    /\ all_results' = DictPut(all_results, tickers[ticker_no], results')
    /\ IF ticker_no < Len(tickers)
       THEN /\ ticker_no' = ticker_no + 1
            /\ endpoint_i' = 0
            /\ data' = EmptyDict
            /\ pc' = "fetch"
       ELSE /\ pc' = "looped"
            /\ UNCHANGED <<ticker_no, endpoint_i, data>>
    /\ UNCHANGED <<values, result, now_year, argv, tickers, calls, report, now_date, status>>
    /\ UNCHANGED script_vars

\* filename = generate_screening_report(tickers, all_results); main returns
WriteReport ==
    /\ pc = "looped"
    /\ report' = Some(generate_screening_report(tickers, all_results, now_date))
    /\ status' = Some(0)
    /\ pc' = "done"
    /\ UNCHANGED <<values, result, data, now_year, results>>
    /\ UNCHANGED <<argv, tickers, ticker_no, endpoint_i, calls, all_results, now_date>>
    /\ UNCHANGED script_vars

NextMain ==
    \/ MainUsage
    \/ MainStart
    \/ ApiCall
    \/ RateLimitSleep
    \/ StoreResults
    \/ WriteReport

SpecMain == InitMain /\ [][NextMain]_vars

\* ------------------------------------------------------------------------
\* SCRIPT_reddit_top_posts.py: main checks the credits, fetches the posts of
\* each subreddit and displays the top posts.  The requests are recorded in
\* calls in the order they are made.
\* ------------------------------------------------------------------------
\* posts in one API response
MaxPosts == 3

DEFAULT_POST_COUNT == 15

SUBREDDITS == <<"ValueInvesting", "stocks", "options">>

\* the variables the other two scripts leave alone
idle_vars == <<values, data, now_year, results, argv, tickers, ticker_no, endpoint_i,
               all_results, report, now_date>>

\* a post; score is None when the post has no 'score' key
Post(title, score) == [title |-> title, score |-> score]

\* p.get('score', 0)
ScoreKey(p) == IF p.score = None THEN 0 ELSE Val(p.score)

\* posts.sort(key=lambda p: p.get('score', 0), reverse=True): the sort is
\* stable, posts of equal score keep their order
SortByScore(posts) ==
    LET n == Len(posts)
        Before(a, b) == \/ ScoreKey(posts[a]) > ScoreKey(posts[b])
                        \/ ScoreKey(posts[a]) = ScoreKey(posts[b]) /\ a < b
        Rank(a) == 1 + Cardinality({b \in 1..n : Before(b, a)})
    IN  [k \in 1..n |-> posts[CHOOSE a \in 1..n : Rank(a) = k]]

\* posts[:count]: a negative count drops that many posts from the end
SliceTo(posts, n) ==
    IF n >= 0 THEN Take(posts, n) ELSE Take(posts, Max2(0, Len(posts) + n))

\* client.fetch_subreddit_posts: the request raised, or returned JSON whose
\* data.posts is a dict of posts (posts # None) or something else
FetchRaised == [raised |-> TRUE, posts |-> None]

FetchReturned(posts) == [raised |-> FALSE, posts |-> posts]

\* GET .../credits and GET .../scrape/reddit/subreddit
CreditsEvent(ok) == [kind |-> "credits", subreddit |-> "", ok |-> ok, posts |-> None]

FetchEvent(subreddit, response) ==
    [kind |-> "fetch", subreddit |-> subreddit, ok |-> ~response.raised, posts |-> response.posts]

PostPool == {Post("a", Some(3)), Post("b", None), Post("c", Some(7)),
             Post("d", Some(3)), Post("e", Some(-2))}

DistinctTitles(posts) == \A a, b \in 1..Len(posts) : posts[a].title = posts[b].title => a = b

PostLists == {posts \in SeqsUpTo(MaxPosts, PostPool) : DistinctTitles(posts)}

BasicPosts == <<Post("x", Some(1)), Post("y", Some(4))>>

\* the first subreddit answers with every list of posts, the other two with
\* a fixed list, no posts, something that is no dict, or an error
Responses(subreddit) ==
    CASE subreddit = "ValueInvesting" ->
             {FetchRaised, FetchReturned(None)} \cup {FetchReturned(Some(posts)) : posts \in PostLists}
      [] subreddit = "stocks" -> {FetchRaised, FetchReturned(Some(BasicPosts))}
      [] OTHER -> {FetchReturned(None), FetchReturned(Some(<<>>)), FetchReturned(Some(BasicPosts))}

\* --count takes any int
CountInputs == {-1, 0, 1, 2, DEFAULT_POST_COUNT}

InitReddit ==
    /\ values = <<>>
    /\ result = None
    /\ pc = "main"
    /\ data = NoData
    /\ now_year = 2024
    /\ results = NoResults
    /\ NoRun
    /\ args_count \in CountInputs
    /\ all_posts = EmptyDict
    /\ shown = EmptyDict
    /\ loop_no = 0
    /\ url = None

\* SOCIAVAULT_API_KEY is not set: return 1
RedditNoApiKey ==
    /\ pc = "main"
    /\ status' = Some(1)
    /\ pc' = "done"
    /\ UNCHANGED <<result, calls, args_count, all_posts, shown, loop_no, url>>
    /\ UNCHANGED idle_vars

\* client.check_credits(): an HTTP error ends main with 1
CheckCredits ==
    /\ pc = "main"
    /\ \E ok \in BOOLEAN :
           /\ calls' = Append(calls, CreditsEvent(ok))
           /\ IF ok
              THEN /\ pc' = "fetch"
                   /\ loop_no' = 1
                   /\ status' = status
              ELSE /\ pc' = "done"
                   /\ loop_no' = loop_no
                   /\ status' = Some(1)
    /\ UNCHANGED <<result, args_count, all_posts, shown, url>>
    /\ UNCHANGED idle_vars

\* except Exception: all_posts[subreddit] = []
FetchFailed_nokey(posts_by_subreddit, subreddit) == posts_by_subreddit

FetchFailed(posts_by_subreddit, subreddit) == DictPut(posts_by_subreddit, subreddit, <<>>)

\* one pass of fetch_all_subreddit_posts' loop
FetchSubreddit ==
    /\ pc = "fetch"
    /\ LET subreddit == SUBREDDITS[loop_no]
       IN  \E response \in Responses(subreddit) :
               /\ calls' = Append(calls, FetchEvent(subreddit, response))
               /\ all_posts' =
                      IF response.raised THEN FetchFailed(all_posts, subreddit)
                      ELSE DictPut(all_posts, subreddit,
                                   IF response.posts = None THEN <<>>
                                   ELSE SortByScore(Val(response.posts)))
    /\ IF loop_no < Len(SUBREDDITS)
       THEN /\ loop_no' = loop_no + 1
            /\ pc' = "fetch"
       ELSE /\ loop_no' = loop_no
            /\ pc' = "display"
    /\ UNCHANGED <<result, status, args_count, shown, url>>
    /\ UNCHANGED idle_vars

\* display_posts(all_posts, args.count, ...), then return 0: nothing is shown
\* when no subreddit has posts, and a subreddit without posts is skipped
DisplayPosts ==
    /\ pc = "display"
    /\ shown' = [subreddit \in {x \in DOMAIN all_posts : all_posts[x] # <<>>} |->
                     SliceTo(all_posts[subreddit], args_count)]
    /\ status' = Some(0)
    /\ pc' = "done"
    /\ UNCHANGED <<result, calls, args_count, all_posts, loop_no, url>>
    /\ UNCHANGED idle_vars

NextReddit ==
    \/ RedditNoApiKey
    \/ CheckCredits
    \/ FetchSubreddit
    \/ DisplayPosts

SpecReddit == InitReddit /\ [][NextReddit]_vars

\* ------------------------------------------------------------------------
\* SCRIPT_the_batch.py: main fetches the archive page, finds the latest
\* newsletter's URL, sleeps, fetches the newsletter and displays it.  The
\* requests of fetch_html and the sleep are recorded in calls.
\* ------------------------------------------------------------------------
ARCHIVE_URL == "https://www.deeplearning.ai/the-batch/"

ISSUE_URL == "https://www.deeplearning.ai/the-batch/issue-1/"

impersonations_safarifirst == <<"safari15_5", "chrome120", "chrome119", "chrome116">>

impersonations == <<"chrome120", "chrome119", "chrome116", "safari15_5">>

\* session.get(url, ..., impersonate=...) followed by raise_for_status():
\* error is "" when the request succeeded, body is response.text
GetEvent(address, impersonate, ok, error, body) ==
    [kind |-> "get", url |-> address, impersonate |-> impersonate, ok |-> ok,
     error |-> error, body |-> body, ms |-> 0]

\* time.sleep(1.5)
PauseEvent(ms) ==
    [kind |-> "sleep", url |-> "", impersonate |-> "", ok |-> TRUE,
     error |-> "", body |-> "", ms |-> ms]

\* what a request can end with: an exception, or a response with a text
GetErrors == {"timeout", "HTTP 403", "HTTP 503"}

ArchiveWithIssue == "<a href=/the-batch/issue-1/>"

Bodies(address) ==
    IF address = ARCHIVE_URL THEN {ArchiveWithIssue, "<p>no links</p>"}
    ELSE {"<article>issue 1</article>", ""}

\* the URL of the latest newsletter, or None when the function raises
find_latest_newsletter_url(archive_html) ==
    IF archive_html = ArchiveWithIssue THEN Some(ISSUE_URL) ELSE None

InitBatch ==
    /\ values = <<>>
    /\ result = None
    /\ pc = "main"
    /\ data = NoData
    /\ now_year = 2024
    /\ results = NoResults
    /\ NoRun
    /\ NoScript

\* archive_html = fetch_html(ARCHIVE_URL, session=session): the call starts
FetchArchive ==
    /\ pc = "main"
    /\ url' = Some(ARCHIVE_URL)
    /\ loop_no' = 1
    /\ pc' = "get"
    /\ UNCHANGED <<result, calls, status, args_count, all_posts, shown>>
    /\ UNCHANGED idle_vars

\* one pass of fetch_html's loop: the request succeeds and its text is
\* returned, or it fails and the next impersonation is tried, or, after
\* the last impersonation, an exception is raised
TryImpersonation ==
    /\ pc = "get"
    /\ \/ \E body \in Bodies(Val(url)) :
              /\ calls' = Append(calls, GetEvent(Val(url), impersonations[loop_no], TRUE, "", body))
              /\ result' = Some(body)
              /\ pc' = "returned"
              /\ loop_no' = loop_no
       \/ \E error \in GetErrors :
              /\ calls' = Append(calls, GetEvent(Val(url), impersonations[loop_no], FALSE, error, ""))
              /\ result' = result
              /\ IF impersonations[loop_no] = impersonations[Len(impersonations)]
                 THEN /\ pc' = "raised"
                      /\ loop_no' = loop_no
                 ELSE /\ pc' = "get"
                      /\ loop_no' = loop_no + 1
    /\ UNCHANGED <<status, args_count, all_posts, shown, url>>
    /\ UNCHANGED idle_vars

\* newsletter_url = find_latest_newsletter_url(archive_html); time.sleep(1.5);
\* newsletter_html = fetch_html(newsletter_url, session=session) starts
FetchNewsletter ==
    /\ pc = "returned"
    /\ url = Some(ARCHIVE_URL)
    /\ IF find_latest_newsletter_url(Val(result)) = None
       THEN /\ pc' = "no links"
            /\ UNCHANGED <<url, calls, loop_no, result>>
       ELSE /\ url' = find_latest_newsletter_url(Val(result))
            /\ calls' = Append(calls, PauseEvent(1500))
            /\ loop_no' = 1
            /\ result' = None
            /\ pc' = "get"
    /\ UNCHANGED <<status, args_count, all_posts, shown>>
    /\ UNCHANGED idle_vars

\* extract_newsletter_content, display_newsletter, return 0
DisplayNewsletter ==
    /\ pc = "returned"
    /\ url # Some(ARCHIVE_URL)
    /\ status' = Some(0)
    /\ pc' = "done"
    /\ UNCHANGED <<result, calls, args_count, all_posts, shown, loop_no, url>>
    /\ UNCHANGED idle_vars

\* except Exception: the error is printed, return 1
BatchError ==
    /\ pc \in {"raised", "no links"}
    /\ status' = Some(1)
    /\ pc' = "done"
    /\ UNCHANGED <<result, calls, args_count, all_posts, shown, loop_no, url>>
    /\ UNCHANGED idle_vars

NextBatch ==
    \/ FetchArchive
    \/ TryImpersonation
    \/ FetchNewsletter
    \/ DisplayNewsletter
    \/ BatchError

SpecBatch == InitBatch /\ [][NextBatch]_vars

\* ------------------------------------------------------------------------
\* Claims about the primitives
\* ------------------------------------------------------------------------
NonNoneCount(vs) == Len(SelectSeq(vs, IsSome))

\* C1: with fewer than 2 non-None entries calculate_cagr, calculate_cv and
\* calculate_slope return None; with fewer than 3 detect_outliers returns [].
C1_SparseInputsAreAbsent ==
    /\ (pc \in {"cagr", "cv", "slope"} /\ NonNoneCount(values) < 2) => result = None
    /\ (pc = "outliers" /\ NonNoneCount(values) < 3) => result = <<>>

C1_Witness ==
    /\ pc = "cv"
    /\ NonNoneCount(values) = 1
    /\ Len(values) >= 2
    /\ result = None

\* the rounded value r (hundredths of a percent) is within half a unit of
\* 10000 * ((last / first)^(1 / periods) - 1)
CagrBrackets(r, first, last, periods) ==
    LET x == 2 * (10000 + r)
    IN  /\ x >= 1
        /\ PowLeq(x - 1, periods, first, 20000, last)
        /\ PowLeq(20000, periods, last, x + 1, first)

\* C2: calculate_cagr is None when the first or the last non-None value is
\* <= 0, whatever lies between; otherwise, with n >= 2 non-None values, it is
\* (last / first)^(1 / (n - 1)) - 1 as a percentage, n counted after the filter.
C2_CagrFormula ==
    pc = "cagr" =>
        LET clean == Clean(values)
            n     == Len(clean)
        IN  /\ (n >= 1 /\ (clean[1] <= 0 \/ clean[n] <= 0)) => result = None
            /\ (n >= 2 /\ clean[1] > 0 /\ clean[n] > 0) =>
                   /\ result # None
                   /\ CagrBrackets(Val(result), clean[1], clean[n], n - 1)

C2_Witness ==
    /\ pc = "cagr"
    /\ values = <<Some(100), None, Some(-100), Some(300)>>
    /\ result = Some(7321)

\* (v - mean)^2 > 4 * variance over the non-None values of vs, with
\* mean = s / n and variance = sum((x - mean)^2) / n, cleared of fractions
OutsideBand(v, vs) ==
    LET xs == Clean(vs)
        n  == Len(xs)
        s  == SeqSum(xs)
    IN  n * (n * v - s) * (n * v - s)
            > 4 * SeqSum([j \in 1..n |-> (n * xs[j] - s) * (n * xs[j] - s)])

\* C3 as stated: every index detect_outliers returns is a position in the
\* filtered sequence, and the value at that position is outside the band.
C3_IndicesIntoFiltered ==
    (pc = "outliers" /\ NonNoneCount(values) >= 3) =>
        \A j \in 1..Len(result) :
            /\ result[j] < NonNoneCount(values)
            /\ OutsideBand(Clean(values)[result[j] + 1], values)

\* C3 amended: every index detect_outliers returns is a position in the
\* original input, the entry there is non-None and outside the band.
C3_IndicesIntoOriginal ==
    (pc = "outliers" /\ NonNoneCount(values) >= 3) =>
        \A j \in 1..Len(result) :
            /\ result[j] \in 0..(Len(values) - 1)
            /\ values[result[j] + 1] # None
            /\ OutsideBand(Val(values[result[j] + 1]), values)

C3_Witness ==
    /\ pc = "outliers"
    /\ Len(values) >= 2
    /\ values[1] = None
    /\ NonNoneCount(values) = Len(values) - 1
    /\ result = <<Len(values) - 1>>

AllEqual(xs) == \A i, j \in 1..Len(xs) : xs[i] = xs[j]

\* C4: detect_outliers returns [] when all non-None values are equal.
C4_EqualValuesNoOutliers ==
    (pc = "outliers" /\ AllEqual(Clean(values))) => result = <<>>

C4_Witness ==
    /\ pc = "outliers"
    /\ NonNoneCount(values) >= 3
    /\ NonNoneCount(values) < Len(values)
    /\ AllEqual(Clean(values))
    /\ result = <<>>

\* the contribution of position i (0-based i - 1) to a sum over the
\* non-None entries of vs
OverPoints(vs, term(_, _)) ==
    SeqSum([i \in 1..Len(vs) |-> IF vs[i] = None THEN 0 ELSE term(i - 1, Val(vs[i]))])

\* sum((x - mean_x) * (y - mean_y)) / sum((x - mean_x)^2) over the points
\* (original position, value), rounded to hundredths
OlsSlope(vs) ==
    LET n  == NonNoneCount(vs)
        X(x, y) == x
        Y(x, y) == y
        sx == OverPoints(vs, X)
        sy == OverPoints(vs, Y)
        Cov(x, y) == (n * x - sx) * (n * y - sy)
        Var(x, y) == (n * x - sx) * (n * x - sx)
    IN  RoundDiv(OverPoints(vs, Cov), OverPoints(vs, Var))

\* C5: with at least 2 non-None values calculate_slope is a number, the
\* least-squares slope of the values against their original positions.
C5_SlopeOverOriginalPositions ==
    (pc = "slope" /\ NonNoneCount(values) >= 2) =>
        /\ result # None
        /\ Val(result) = OlsSlope(values)

C5_Witness ==
    /\ pc = "slope"
    /\ values = <<Some(100), None, None, Some(300)>>
    /\ result = Some(67)

\* ------------------------------------------------------------------------
\* Claims about the calculators, checked on the per-ticker pipeline
\* ------------------------------------------------------------------------
Ran(stage) ==
    LET order == <<"fetched", "price", "eps", "revenue", "margin", "pe", "estimates",
                   "report">>
        Pos(p) == CHOOSE i \in 1..Len(order) : order[i] = p
    IN  Pos(pc) >= Pos(stage)

PositionsOf(years, y) == {j \in 1..Len(years) : years[j] = y}

\* C6: the P/E record's annual_years are exactly the years found in both the
\* price record's and the EPS record's annual_years whose annual EPS is > 0,
\* each once, and annual_values[i] is the price of that year divided by its
\* EPS, rounded to 2 decimals.
C6_PeInnerJoin ==
    (Ran("pe") /\ results.pe # None) =>
        LET pe    == Val(results.pe)
            price == Val(results.price)
            eps   == Val(results.eps)
        IN  /\ Len(pe.annual_values) = Len(pe.annual_years)
            /\ \A i, j \in 1..Len(pe.annual_years) :
                   pe.annual_years[i] = pe.annual_years[j] => i = j
            /\ \A i \in 1..Len(pe.annual_years) :
                   \E k \in PositionsOf(price.annual_years, pe.annual_years[i]),
                      j \in PositionsOf(eps.annual_years, pe.annual_years[i]) :
                       /\ eps.annual_values[j] > 0
                       /\ pe.annual_values[i] =
                              RoundDiv(price.annual_values[k] * 100, eps.annual_values[j])
            /\ \A y \in SeqRange(price.annual_years) \cap SeqRange(eps.annual_years) :
                   (\A j \in PositionsOf(eps.annual_years, y) : eps.annual_values[j] > 0)
                       => y \in SeqRange(pe.annual_years)

\* price {2021: 1.50, 2022: 1.30} with EPS {2021: 0.05, 2022: -0.01}
C6_Witness ==
    /\ pc = "pe"
    /\ results.price # None /\ results.eps # None /\ results.pe # None
    /\ Val(results.price).annual_years = <<2021, 2022>>
    /\ Val(results.price).annual_values = <<150, 130>>
    /\ Val(results.eps).annual_years = <<2021, 2022>>
    /\ Val(results.eps).annual_values = <<5, -1>>
    /\ Val(results.pe).annual_years = <<2021>>
    /\ Val(results.pe).annual_values = <<3000>>

NoAnnualEarnings ==
    data.earnings = None \/ Val(data.earnings).annualEarnings = <<>>

\* C7 as stated: calculate_eps_stats returns None whenever the earnings
\* payload has no annual earnings entries, whatever the quarterly entries are.
C7_NoneWithoutAnnualEarnings ==
    (Ran("eps") /\ NoAnnualEarnings) => results.eps = None

\* C7 amended: calculate_eps_stats returns None exactly when the payload is
\* missing, quarterlyEarnings has fewer than 2 entries or the newest
\* quarter's reportedEPS does not parse; annualEarnings plays no part, and
\* without annual entries the record has empty annual series and no trend.
C7_NoneIffQuarterlyInsufficient ==
    Ran("eps") =>
        /\ results.eps = None <=>
               \/ data.earnings = None
               \/ Len(Val(data.earnings).quarterlyEarnings) < 2
               \/ safe_float(Val(data.earnings).quarterlyEarnings[1].reportedEPS) = None
        /\ (results.eps # None /\ NoAnnualEarnings) =>
               /\ Val(results.eps).annual_years = <<>>
               /\ Val(results.eps).annual_values = <<>>
               /\ Val(results.eps).years_of_data = 0
               /\ Val(results.eps).mean_5yr = None
               /\ Val(results.eps).cagr_5yr = None

C7_Witness ==
    /\ pc = "eps"
    /\ data.earnings # None
    /\ Val(data.earnings).annualEarnings = <<>>
    /\ Len(Val(data.earnings).quarterlyEarnings) = 2
    /\ results.eps # None
    /\ Val(results.eps).annual_years = <<>>
    /\ Val(results.eps).latest = 100

ParseableCloses(price_data) == Len(SelectSeq(Val(price_data).time_series, HasClose))

\* C8: each calculator returns None when its input is insufficient: price
\* without a payload or with fewer than 2 parseable closes, revenue and margin
\* without a payload or with no annual reports, estimates without a payload or
\* with no estimates, P/E without a price record or without an EPS record;
\* the whole loop body runs for every subset of missing payloads.
C8_InsufficientInputGivesNone ==
    /\ (Ran("price") /\ (data.price_monthly = None \/ ParseableCloses(data.price_monthly) < 2))
           => results.price = None
    /\ (Ran("revenue") /\ (data.income = None \/ Val(data.income).annualReports = <<>>))
           => results.revenue = None
    /\ (Ran("margin") /\ (data.income = None \/ Val(data.income).annualReports = <<>>))
           => results.margin = None
    /\ (Ran("pe") /\ (results.price = None \/ results.eps = None))
           => results.pe = None
    /\ (Ran("estimates") /\ (data.earnings_estimates = None
                                \/ Val(data.earnings_estimates).estimates = <<>>))
           => results.estimates = None

\* two monthly entries of which one parses, an EPS record, no income payload
C8_Witness ==
    /\ pc = "estimates"
    /\ data.price_monthly # None
    /\ Len(Val(data.price_monthly).time_series) = 2
    /\ ParseableCloses(data.price_monthly) = 1
    /\ data.income = None
    /\ data.earnings_estimates = None
    /\ results.eps # None
    /\ results.price = None
    /\ results.pe = None
    /\ results.revenue = None
    /\ results.margin = None
    /\ results.estimates = None

MetricRecords ==
    {r \in {results.price, results.eps, results.revenue, results.margin, results.pe} : r # None}

\* C9: every record of the five metric calculators has annual_years and
\* annual_values of the same length, at most 5.
C9_AnnualSeriesParallelAtMostFive ==
    \A r \in MetricRecords :
        /\ Len(Val(r).annual_years) = Len(Val(r).annual_values)
        /\ Len(Val(r).annual_years) <= 5

\* six parseable annual earnings entries, of which the first five are kept
C9_Witness ==
    /\ pc = "eps"
    /\ results.eps # None
    /\ Len(SelectSeq(Val(data.earnings).annualEarnings, HasEpsAndYear)) = 6
    /\ Len(Val(results.eps).annual_years) = 5
    /\ Len(Val(results.eps).annual_values) = 5

NonDecreasing(years) == \A i \in 1..(Len(years) - 1) : years[i] <= years[i + 1]

\* C10 as stated: in every record of the five metric calculators annual_years
\* is in chronological order, oldest to newest, whatever the order of the
\* entries in the source payload.
C10_AnnualYearsChronological ==
    \A r \in MetricRecords : NonDecreasing(Val(r).annual_years)

HasRevenue(r) == safe_float(r.totalRevenue) # None

\* C11 as stated, for the YTD annualized revenue: a quarter of the wall-clock
\* year whose totalRevenue is missing or unparseable is left out of the
\* aggregate, which is 4 times the mean of the parseable quarters (absent
\* when none parses), and is never counted as a quarter of revenue 0.
C11_MissingExcludedFromYtd ==
    (Ran("revenue") /\ results.revenue # None) =>
        LET ytd    == YtdQuarters(Val(data.income).quarterlyReports, now_year)
            parsed == SelectSeq(ytd, HasRevenue)
            total  == SeqSum([i \in 1..Len(parsed) |-> Val(safe_float(parsed[i].totalRevenue))])
            ann    == Val(results.revenue).ytd_annualized
        IN  IF parsed = <<>> THEN ann = None
            ELSE /\ ann # None
                 /\ Val(ann).num * Len(parsed) = 4 * total * Val(ann).den

HorizonPhrases ==
    [next_quarter        |-> <<"next", "quarter">>,
     next_fiscal_year    |-> <<"next", "fiscal", "year">>,
     current_fiscal_year |-> <<"current", "fiscal", "year">>]

\* C12 as stated: under each of the three horizons the record holds the first
\* entry of the estimates list whose stripped, lower-cased horizon text
\* contains the phrase, and None when no entry contains it.
C12_FirstMatchPerPhrase ==
    (Ran("estimates") /\ results.estimates # None) =>
        LET rec    == Val(results.estimates)
            parsed == rec.all_estimates
            Matches(phrase) == {i \in 1..Len(parsed) : Contains(HorizonKey(parsed[i]), phrase)}
            First(phrase)   == CHOOSE i \in Matches(phrase) : \A j \in Matches(phrase) : i <= j
        IN  \A key \in DOMAIN HorizonPhrases :
                rec[key] = IF Matches(HorizonPhrases[key]) = {} THEN None
                           ELSE Some(parsed[First(HorizonPhrases[key])])

\* C12 amended: 'next quarter' holds the first entry whose stripped,
\* lower-cased horizon text contains it; every stored entry contains the
\* phrase of its horizon; and when no horizon text contains more than one of
\* the phrases, each horizon holds the first entry containing its phrase
\* (None if there is none), later entries never replacing it.
C12_FirstMatchOnePhrasePerEntry ==
    (Ran("estimates") /\ results.estimates # None) =>
        LET rec    == Val(results.estimates)
            parsed == rec.all_estimates
            Matches(phrase) == {i \in 1..Len(parsed) : Contains(HorizonKey(parsed[i]), phrase)}
            First(phrase)   == CHOOSE i \in Matches(phrase) : \A j \in Matches(phrase) : i <= j
            FirstMatch(key) == IF Matches(HorizonPhrases[key]) = {} THEN None
                               ELSE Some(parsed[First(HorizonPhrases[key])])
            Single == \A i \in 1..Len(parsed) :
                          Cardinality({key \in DOMAIN HorizonPhrases :
                                          Contains(HorizonKey(parsed[i]), HorizonPhrases[key])}) <= 1
        IN  /\ rec.next_quarter = FirstMatch("next_quarter")
            /\ \A key \in DOMAIN HorizonPhrases :
                   rec[key] # None => Contains(HorizonKey(Val(rec[key])), HorizonPhrases[key])
            /\ Single => \A key \in DOMAIN HorizonPhrases : rec[key] = FirstMatch(key)

\* two entries contain 'next quarter'; the first one is kept
C12_Witness ==
    /\ pc = "estimates"
    /\ results.estimates # None
    /\ Len(Val(results.estimates).all_estimates) = 3
    /\ Val(results.estimates).all_estimates[1].horizon = Some(<<"next", "fiscal", "year">>)
    /\ Val(results.estimates).all_estimates[2].horizon = Some(<<" ", "Next", "Quarter", " ">>)
    /\ Val(results.estimates).all_estimates[3].horizon = Some(<<"next", "quarter">>)
    /\ Val(results.estimates).next_quarter = Some(Val(results.estimates).all_estimates[2])
    /\ Val(results.estimates).next_fiscal_year = Some(Val(results.estimates).all_estimates[1])
    /\ Val(results.estimates).current_fiscal_year = None

\* ------------------------------------------------------------------------
\* Claims about fmt_val
\* ------------------------------------------------------------------------
\* text ends with the literal s
EndsWith(text, s) == text # <<>> /\ text[Len(text)] = Lit(s)

\* the fraction val is greater than the integer n
Above(val, n) ==
    \/ val.num \div val.den > n
    \/ val.num \div val.den = n /\ val.num % val.den > 0

\* the magnitude of the fraction val is at least the integer n
MagnitudeAtLeast(val, n) ==
    IF val.num >= 0 THEN val.num \div val.den >= n ELSE (-val.num) \div val.den >= n

\* a call fmt_val(v, 'dollars_large', is_delta) of a present v has returned
LargeDollarsFormatted == pc = "fmt_val" /\ values[2] = "dollars_large" /\ values[1] # None

\* C16 as claimed: fmt_val(v, 'dollars_large') ends in 'B' exactly when v is
\* above 1e9, in 'M' exactly when v is above 1e6 and not above 1e9, and is
\* otherwise the unscaled amount without decimals; 1_500_000_000 gives
\* '$1.50B' and 2_500_000 gives '$2.5M'.
C16_LargeDollarsAboveThreshold ==
    LargeDollarsFormatted =>
        LET v == Val(values[1])
        IN  /\ EndsWith(result, "B") <=> Above(v, 10 ^ 9)
            /\ EndsWith(result, "M") <=> (Above(v, 10 ^ 6) /\ ~Above(v, 10 ^ 9))
            /\ (~Above(v, 10 ^ 6)) => result[Len(result)].k = "num" /\ result[Len(result)].p = 0

\* C16 as the code has it: the suffix follows the magnitude of v with the
\* thresholds included: 'B' exactly when |v| >= 1e9, 'M' exactly when
\* 1e6 <= |v| < 1e9, otherwise the unscaled amount without decimals;
\* 1_500_000_000 gives '$1.50B' and 2_500_000 gives '$2.5M'.
C16_LargeDollarsByMagnitude ==
    LargeDollarsFormatted =>
        LET v == Val(values[1])
        IN  /\ EndsWith(result, "B") <=> MagnitudeAtLeast(v, 10 ^ 9)
            /\ EndsWith(result, "M") <=> (MagnitudeAtLeast(v, 10 ^ 6) /\ ~MagnitudeAtLeast(v, 10 ^ 9))
            /\ (~MagnitudeAtLeast(v, 10 ^ 6)) =>
                   result[Len(result)].k = "num" /\ result[Len(result)].p = 0
            /\ (values[1] = Amount(1500000000, 1) /\ ~values[3]) =>
                   result = <<Lit("$"), NumTok(150, 2), Lit("B")>>
            /\ (values[1] = Amount(2500000, 1) /\ ~values[3]) =>
                   result = <<Lit("$"), NumTok(25, 1), Lit("M")>>

\* exactly 1e9 is formatted in billions
C16_Witness ==
    /\ pc = "fmt_val"
    /\ values = <<Amount(1000000000, 1), "dollars_large", FALSE>>
    /\ result = <<Lit("$"), NumTok(100, 2), Lit("B")>>

\* ------------------------------------------------------------------------
\* Claims about the report
\* ------------------------------------------------------------------------
\* the tokens of a sequence of cells
CellTokens(cells) == UNION {SeqRange(cells[c]) : c \in 1..Len(cells)}

\* every token a line shows
LineTokens(line) ==
    SeqRange(line.text) \cup CellTokens(line.headers)
        \cup UNION {CellTokens(line.rows[r]) : r \in 1..Len(line.rows)}

RenderedTokens(lines) == UNION {LineTokens(lines[n]) : n \in 1..Len(lines)}

\* a None that reached the output as something other than the dash
IsUndashedNone(tok) == tok.k \in {"none", "str-none"}

\* C15: every absent (None) value the report renders, in any table cell or
\* summary line and for any field of any record or estimate entry, appears
\* as the em-dash; fmt_val(None, unit, is_delta) is the em-dash for every
\* unit tag and both values of is_delta.
C15_AbsentRenderedAsDash ==
    /\ \A unit \in FmtUnits, is_delta \in BOOLEAN : fmt_val(None, unit, is_delta) = Dash
    /\ pc = "report" =>
           \A tok \in RenderedTokens(Val(report).lines) : ~IsUndashedNone(tok)

\* the days on which a second run takes place
WallClocks == {20231231, 20240615, 20240616}

\* the Markdown of a run of main on a given day, every ticker's calls
\* returning the given payloads
MarkdownOn(names, payloads, day) ==
    generate_screening_report(names,
        [t \in SeqRange(names) |-> ProcessTicker(payloads, YearOfDay(day))], day).lines

\* C19: two runs of the calculators and of generate_screening_report on the
\* same ticker list and the same API payloads give the same Markdown and
\* the same metric records, whatever the wall-clock date of each run.
C19_SameMarkdownWhateverDate ==
    pc = "report" =>
        \A day \in WallClocks :
            /\ ProcessTicker(data, YearOfDay(day)) = results
            /\ MarkdownOn(tickers, data, day) = Val(report).lines

\* the line opens with the literal mark
StartsWith(line, mark) == line.kind = "text" /\ line.text # <<>> /\ line.text[1] = Lit(mark)

IsHeadingLine(line) == StartsWith(line, "## ") \/ StartsWith(line, "### ")

\* the heading lines of the report, in order
HeadingsOf(lines) == SelectSeq(lines, IsHeadingLine)

SectionTitles == <<"Summary", "Price Trend", "EPS Trend", "Revenue Trend",
                   "Operating Margin Trend", "P/E Trend", "EPS Estimates">>

\* the ticker's own heading, then the seven section headings
HeadingsFor(ticker) ==
    <<TextLine(<<Lit("## "), Lit(ticker)>>)>>
        \o [n \in 1..Len(SectionTitles) |-> TextLine(<<Lit("### "), Lit(SectionTitles[n])>>)]

RECURSIVE ExpectedHeadings(_)
ExpectedHeadings(names) ==
    IF names = <<>> THEN <<>> ELSE HeadingsFor(Head(names)) \o ExpectedHeadings(Tail(names))

\* C13: the report has exactly one '## <ticker>' section per entry of the
\* ticker list, in the caller's order, and in each of them the headings
\* Summary, Price Trend, EPS Trend, Revenue Trend, Operating Margin Trend,
\* P/E Trend, EPS Estimates exactly once and in that order, whatever
\* records are None.
C13_OneSectionPerTickerFixedHeadings ==
    pc = "written" => HeadingsOf(Val(report).lines) = ExpectedHeadings(tickers)

\* a ticker listed twice around another one, all of its records None
C13_Witness ==
    /\ pc = "written"
    /\ tickers = <<"AAPL", "MSFT", "AAPL">>
    /\ all_results["AAPL"] = NoResults
    /\ Len(HeadingsOf(Val(report).lines)) = 24

\* the lines of the n-th ticker section: from its '## ' heading up to the
\* line before the next one
TickerBlock(lines, n) ==
    LET at   == SortedSeq({j \in 1..Len(lines) : StartsWith(lines[j], "## ")})
        last == IF n < Len(at) THEN at[n + 1] - 1 ELSE Len(lines)
    IN  SubSeq(lines, at[n], last)

\* the lines under the heading title, up to the next heading or rule
SectionBody(block, title) ==
    LET from == CHOOSE j \in 1..Len(block) : block[j] = TextLine(<<Lit("### "), Lit(title)>>)
        Ends(j) == j > from /\ (IsHeadingLine(block[j]) \/ block[j] = TextLine(<<Lit("---")>>))
        to   == CHOOSE j \in 1..Len(block) : Ends(j) /\ \A m \in 1..(j - 1) : ~Ends(m)
    IN  SubSeq(block, from + 1, to - 1)

TitleOf == [price |-> "Price Trend", eps |-> "EPS Trend", revenue |-> "Revenue Trend",
            margin |-> "Operating Margin Trend", pe |-> "P/E Trend",
            estimates |-> "EPS Estimates"]

PlaceholderOf ==
    [price     |-> "*No price data available*",
     eps       |-> "*No EPS data available*",
     revenue   |-> "*No revenue data available*",
     margin    |-> "*No operating margin data available*",
     pe        |-> "*No P/E data available (negative or insufficient earnings)*",
     estimates |-> "*No estimates data available*"]

\* a blank line, the placeholder, a blank line
PlaceholderBody(field) ==
    <<TextLine(<<>>), TextLine(<<Lit(PlaceholderOf[field])>>), TextLine(<<>>)>>

\* the records with every None replaced by the record of the basic payloads
AllPresent(res) == [f \in RecordFields |-> IF res[f] = None THEN FullResults[f] ELSE res[f]]

\* the section of a ticker as it is when all of its records are present
FullSection(ticker, res, title) ==
    SectionBody(TickerSection(ticker, [t \in {ticker} |-> AllPresent(res)]), title)

\* the lines before the beat/miss history
BeforeBeatMiss(body) ==
    LET Opens(j) == body[j] = TextLine(<<Lit("**Recent Beat/Miss History:**")>>)
    IN  IF \E j \in 1..Len(body) : Opens(j)
        THEN SubSeq(body, 1, (CHOOSE j \in 1..Len(body) : Opens(j)) - 1)
        ELSE body

\* C14 as claimed: for every combination of the six records of a ticker
\* being None the report is produced; the section of a record that is None
\* shows its placeholder line, and the section of a record that is present
\* is rendered exactly as it is when all six records are present.
C14_SectionsIndependent ==
    pc = "written" =>
        \A n \in 1..Len(tickers) :
            LET ticker == tickers[n]
                res    == all_results[ticker]
                block  == TickerBlock(Val(report).lines, n)
            IN  \A f \in RecordFields :
                    IF res[f] = None
                    THEN SectionBody(block, TitleOf[f]) = PlaceholderBody(f)
                    ELSE SectionBody(block, TitleOf[f]) = FullSection(ticker, res, TitleOf[f])

\* C14 as the code has it: the same, except that the EPS Estimates section
\* of a ticker whose eps record is None is its all-present rendering
\* without the Recent Beat/Miss History block, which is taken from the
\* eps record.
C14_SectionsIndependentButBeatMiss ==
    pc = "written" =>
        \A n \in 1..Len(tickers) :
            LET ticker == tickers[n]
                res    == all_results[ticker]
                block  == TickerBlock(Val(report).lines, n)
            IN  \A f \in RecordFields :
                    IF res[f] = None
                    THEN SectionBody(block, TitleOf[f]) = PlaceholderBody(f)
                    ELSE IF f = "estimates" /\ res.eps = None
                    THEN SectionBody(block, TitleOf[f])
                             = BeforeBeatMiss(FullSection(ticker, res, TitleOf[f]))
                    ELSE SectionBody(block, TitleOf[f]) = FullSection(ticker, res, TitleOf[f])

\* estimates present, eps and margin None: the history is left out and the
\* margin section shows its placeholder
C14_Witness ==
    /\ pc = "written"
    /\ tickers = <<"MSFT", "AAPL">>
    /\ all_results["AAPL"].estimates # None
    /\ all_results["AAPL"].eps = None
    /\ all_results["AAPL"].margin = None
    /\ SectionBody(TickerBlock(Val(report).lines, 2), "Operating Margin Trend")
           = PlaceholderBody("margin")
    /\ SectionBody(TickerBlock(Val(report).lines, 2), "EPS Estimates")
           # FullSection("AAPL", all_results["AAPL"], "EPS Estimates")
    /\ SectionBody(TickerBlock(Val(report).lines, 1), "EPS Estimates")
           = FullSection("AAPL", all_results["AAPL"], "EPS Estimates")

\* ------------------------------------------------------------------------
\* Claims about main and fetch_screening_data
\* ------------------------------------------------------------------------
IsCall(e) == e.kind = "call"

\* the API calls made so far, in order
ApiCalls == SelectSeq(calls, IsCall)

\* C17: during one run of main a sleep of API_DELAY seconds takes place
\* between any two consecutive API calls, the last call of one ticker and
\* the first call of the next ticker included.
C17_SleepBetweenConsecutiveCalls ==
    \A n \in 1..(Len(calls) - 1) :
        calls[n].kind = "call" => calls[n + 1] = SleepEvent(12)

\* the four functions, in the order in which they are called
CallOrder == <<"TIME_SERIES_MONTHLY_ADJUSTED", "EARNINGS", "EARNINGS_ESTIMATES",
               "INCOME_STATEMENT">>

KeyOrder == <<"price_monthly", "earnings", "earnings_estimates", "income">>

\* C18: fetch_screening_data makes exactly four API calls per ticker, in the
\* order price_monthly, earnings, earnings_estimates, income, whatever the
\* outcomes; a failed call is not repeated and its key is mapped to None;
\* the dict returned has exactly the four keys; n tickers make 4n calls, at
\* most 20.
C18_FourCallsPerTickerInOrder ==
    /\ \A n \in 1..Len(ApiCalls) :
           /\ ApiCalls[n].ticker = tickers[((n - 1) \div 4) + 1]
           /\ ApiCalls[n].function = CallOrder[((n - 1) % 4) + 1]
    /\ pc = "returned" =>
           /\ Len(ApiCalls) = 4 * ticker_no
           /\ DOMAIN data = SeqRange(KeyOrder)
           /\ \A k \in 1..4 : data[KeyOrder[k]] = None <=> ~ApiCalls[4 * (ticker_no - 1) + k].ok
    /\ pc \in {"looped", "done"} =>
           /\ Len(ApiCalls) = 4 * Len(tickers)
           /\ Len(ApiCalls) <= 20

\* five tickers, twenty calls, the earnings call of the third one failed
C18_Witness ==
    /\ pc = "done"
    /\ Len(tickers) = 5
    /\ Len(ApiCalls) = 20
    /\ ~ApiCalls[10].ok
    /\ all_results[tickers[3]].eps = None

\* C20: main processes at most 5 tickers: of more than 5 arguments exactly
\* the first 5 are used, in order; without arguments it exits with status
\* 1 before any API call is made or any report is written.
C20_AtMostFiveTickers ==
    /\ Len(tickers) <= 5
    /\ (pc # "main" /\ Len(argv) >= 1) =>
           /\ Len(tickers) = IF Len(argv) > 5 THEN 5 ELSE Len(argv)
           /\ \A n \in 1..Len(tickers) : tickers[n] = Upper(argv[n])
    /\ pc = "done" =>
           /\ DOMAIN all_results = SeqRange(tickers)
           /\ HeadingsOf(Val(report).lines) = ExpectedHeadings(tickers)
    /\ Len(argv) = 0 =>
           /\ calls = <<>>
           /\ report = None
           /\ pc # "main" => (pc = "exit" /\ status = Some(1))

\* six arguments, five tickers processed and reported
C20_Witness ==
    /\ pc = "done"
    /\ Len(argv) = 6
    /\ tickers = <<"AAPL", "MSFT", "GOOG", "AAPL", "TSLA">>
    /\ Len(ApiCalls) = 20

\* ------------------------------------------------------------------------
\* Claims about the price record
\* ------------------------------------------------------------------------
\* the parseable closes of the payload, newest date first
ClosesNewestFirst(price_data) ==
    LET ts == Val(price_data).time_series
        ok == {i \in 1..Len(ts) : safe_float(ts[i].close) # None}
        Rank(i) == 1 + Cardinality({j \in ok : ts[j].date > ts[i].date})
    IN  [k \in 1..Cardinality(ok) |->
            Val(safe_float(ts[CHOOSE i \in ok : Rank(i) = k].close))]

\* the payload without the parseable entries at index 12 and later
NewestTwelve(price_data) ==
    LET ts == Val(price_data).time_series
        ok == {i \in 1..Len(ts) : safe_float(ts[i].close) # None}
        Rank(i) == 1 + Cardinality({j \in ok : ts[j].date > ts[i].date})
        keep == {i \in 1..Len(ts) : i \in ok => Rank(i) <= 12}
        Pick(k) == CHOOSE i \in keep : Cardinality({j \in keep : j < i}) = k - 1
    IN  Some([time_series |-> [k \in 1..Cardinality(keep) |-> ts[Pick(k)]]])

MaxOf(S) == CHOOSE m \in S : \A x \in S : x <= m

MinOf(S) == CHOOSE m \in S : \A x \in S : m <= x

\* C21: with the parseable monthly closes newest first, vs_yoy_pct is the
\* percent change of entry 0 against entry 12, absent with fewer than 13
\* entries or a zero entry 12; high_52w and low_52w are the maximum and the
\* minimum of entries 0..11 (of all entries when there are fewer than 12),
\* and dropping the entries at index 12 and later leaves both unchanged.
C21_YoyAndTwelveMonthRange ==
    (Ran("price") /\ results.price # None) =>
        LET c      == ClosesNewestFirst(data.price_monthly)
            n      == Len(c)
            window == {c[i] : i \in 1..Min2(12, n)}
            rec    == Val(results.price)
        IN  /\ rec.vs_yoy_pct = IF n >= 13 /\ c[13] # 0
                                THEN Some(RoundDiv((c[1] - c[13]) * 10000, c[13]))
                                ELSE None
            /\ rec.high_52w = MaxOf(window)
            /\ rec.low_52w = MinOf(window)
            /\ (pc = "price" /\ n > 12) =>
                   LET short == Val(calculate_price_stats(NewestTwelve(data.price_monthly)))
                   IN  /\ short.high_52w = rec.high_52w
                       /\ short.low_52w = rec.low_52w

\* fourteen closes, the oldest above the other thirteen, a year-over-year
\* change present
C21_Witness ==
    /\ pc = "price"
    /\ results.price # None
    /\ Val(results.price).months_of_data = 14
    /\ Val(results.price).vs_yoy_pct # None
    /\ ClosesNewestFirst(data.price_monthly)[14] > Val(results.price).high_52w

\* ------------------------------------------------------------------------
\* Claims about the guards of the divisions
\* ------------------------------------------------------------------------
\* the fields a record derives from its annual series by the primitives:
\* the growth rate needs positive ends, the coefficient of variation a
\* non-zero mean, the percent delta a non-zero prior value
SeriesGuarded(vals, cagr, cv, delta) ==
    LET n == Len(vals)
    IN  /\ (n >= 2 /\ (vals[1] <= 0 \/ vals[n] <= 0)) => cagr = None
        /\ (n >= 2 /\ SeqSum(vals) = 0) => cv = None
        /\ (n >= 2 /\ vals[n - 1] = 0) => delta.percent = None

IsZero(raw) == safe_float(raw) = Some(0)

PriceGuarded ==
    (Ran("price") /\ results.price # None) =>
        LET c   == ClosesNewestFirst(data.price_monthly)
            n   == Len(c)
            rec == Val(results.price)
        IN  /\ (n > 3 /\ c[4] = 0) => rec.vs_3mo_pct = None
            /\ (n > 12 /\ c[13] = 0) => rec.vs_yoy_pct = None
            /\ rec.high_52w = 0 => rec.vs_52w_high_pct = None
            /\ rec.low_52w = 0 => rec.vs_52w_low_pct = None
            /\ (c[n] <= 0 \/ c[1] <= 0) => rec.cagr_5yr = None
            /\ SeqSum(c) = 0 => rec.cv = None
            /\ (Len(rec.annual_values) >= 2
                    /\ rec.annual_values[Len(rec.annual_values) - 1] = 0)
                   => rec.annual_recent_delta.percent = None

EpsGuarded ==
    (Ran("eps") /\ results.eps # None) =>
        LET q   == Val(data.earnings).quarterlyEarnings
            rec == Val(results.eps)
        IN  /\ IsZero(q[2].reportedEPS) => rec.vs_prev_q_pct = None
            /\ (Len(q) > 4 /\ IsZero(q[5].reportedEPS)) => rec.vs_yoy_pct = None
            /\ \A k \in 1..Len(rec.beat_miss_history) :
                   rec.beat_miss_history[k].estimated = 0
                       => rec.beat_miss_history[k].surprise_pct = None
            /\ SeriesGuarded(rec.annual_values, rec.cagr_5yr, rec.cv, rec.recent_delta)

RevenueGuarded ==
    (Ran("revenue") /\ results.revenue # None) =>
        LET q   == Val(data.income).quarterlyReports
            rec == Val(results.revenue)
            n   == Len(rec.annual_values)
        IN  /\ rec.annual_values[n - 1] = 0 => rec.vs_yoy_pct = None
            /\ (Len(q) >= 2 /\ IsZero(q[2].totalRevenue)) => rec.vs_prev_q_pct = None
            /\ SeriesGuarded(rec.annual_values, rec.cagr_5yr, rec.cv, rec.recent_delta)

MarginGuarded ==
    (Ran("margin") /\ results.margin # None) =>
        LET a   == Val(data.income).annualReports
            q   == Val(data.income).quarterlyReports
            rec == Val(results.margin)
            ytd == {k \in 1..Len(q) : q[k].fiscalDateEnding # None
                                          /\ YearOf(Val(q[k].fiscalDateEnding)) = now_year}
            divisible == {k \in 1..Min2(Len(a), 5) : safe_float(a[k].totalRevenue) # None
                                                        /\ ~IsZero(a[k].totalRevenue)}
        IN  /\ Len(rec.annual_values) <= Cardinality(divisible)
            /\ (Len(q) >= 2 /\ (IsZero(q[1].totalRevenue) \/ IsZero(q[2].totalRevenue)))
                   => rec.vs_prev_q_pct = None
            /\ (\A k \in ytd : safe_float(q[k].totalRevenue) \in {None, Some(0)})
                   => rec.ytd_margin = None
            /\ SeriesGuarded(rec.annual_values, rec.cagr_5yr, rec.cv, rec.recent_delta)

PeGuarded ==
    (Ran("pe") /\ results.pe # None) =>
        LET rec == Val(results.pe)
            n   == Len(rec.annual_values)
            eps == Val(results.eps)
        IN  /\ (rec.ttm_eps # None /\ Val(rec.ttm_eps) <= 0) => rec.trailing_pe = None
            /\ rec.mean_5yr = Some(0) => rec.vs_5yr_avg_pct = None
            /\ (n >= 2 /\ rec.annual_values[n - 1] = 0) => rec.vs_yoy_pct = None
            /\ \A k \in 1..Len(eps.annual_years) :
                   (eps.annual_values[k] <= 0
                        /\ \A j \in (k + 1)..Len(eps.annual_years) :
                               eps.annual_years[j] # eps.annual_years[k])
                       => eps.annual_years[k] \notin SeqRange(rec.annual_years)
            /\ SeriesGuarded(rec.annual_values, rec.cagr_5yr, rec.cv, rec.recent_delta)

EstimatesGuarded ==
    (Ran("estimates") /\ results.estimates # None) =>
        LET rec == Val(results.estimates)
        IN  (rec.next_quarter # None /\ Val(rec.next_quarter).eps_avg = Some(0))
                => rec.delta_actual_vs_next_q_pct = None

\* C22: wherever the denominator of a ratio, percent change, margin or P/E
\* is 0, or an end of a growth rate's series is not positive, the field is
\* None (a margin or P/E of the annual series is left out of the series);
\* every run of the six calculators completes.
C22_ZeroDenominatorsGiveNone ==
    /\ PriceGuarded
    /\ EpsGuarded
    /\ RevenueGuarded
    /\ MarginGuarded
    /\ PeGuarded
    /\ EstimatesGuarded

\* all closes 0 and all quarterly EPS 0: the price ratios, the trailing P/E
\* and the P/E series' ratios are all absent
C22_Witness ==
    /\ pc = "estimates"
    /\ results.price # None
    /\ Val(results.price).high_52w = 0
    /\ Val(results.price).vs_52w_high_pct = None
    /\ Val(results.price).cv = None
    /\ results.eps # None
    /\ Val(results.eps).ttm = Some(0)
    /\ Val(results.eps).vs_prev_q_pct = None
    /\ results.pe # None
    /\ Val(results.pe).trailing_pe = None
    /\ results.margin # None
    /\ results.estimates # None

\* ------------------------------------------------------------------------
\* Claims about the trailing twelve months
\* ------------------------------------------------------------------------
\* the sum of the reported EPS of the first four quarterly entries, None
\* with fewer than four entries or with one of the four not a number
TtmOf(q) ==
    IF Len(q) >= 4 /\ \A k \in 1..4 : safe_float(q[k].reportedEPS) # None
    THEN Some(Val(safe_float(q[1].reportedEPS)) + Val(safe_float(q[2].reportedEPS))
                + Val(safe_float(q[3].reportedEPS)) + Val(safe_float(q[4].reportedEPS)))
    ELSE None

TtmAsClaimed ==
    (Ran("eps") /\ results.eps # None) =>
        Val(results.eps).ttm = TtmOf(Val(data.earnings).quarterlyEarnings)

\* C23 as stated: ttm is the sum of the four most recent quarterly EPS, None
\* with fewer than four entries or one of the four missing; trailing_pe is
\* the current price divided by the TTM EPS whenever both are present.
C23_TrailingPeWheneverBothPresent ==
    /\ TtmAsClaimed
    /\ (Ran("pe") /\ results.pe # None /\ Val(results.eps).ttm # None) =>
           /\ Val(Val(results.eps).ttm) # 0
           /\ Val(results.pe).trailing_pe =
                  Some(RoundDiv(Val(results.price).current * 100, Val(Val(results.eps).ttm)))

\* C23, amended: ttm as stated, over the first four entries of the quarterly
\* list; trailing_pe is the current price divided by the TTM EPS when the
\* TTM EPS is present and positive and the price is not 0, and None
\* otherwise.
C23_TrailingPeForPositiveTtm ==
    /\ TtmAsClaimed
    /\ (Ran("pe") /\ results.pe # None) =>
           LET ttm   == Val(results.eps).ttm
               price == Val(results.price).current
           IN  Val(results.pe).trailing_pe =
                   IF ttm # None /\ Val(ttm) > 0 /\ price # 0
                   THEN Some(RoundDiv(price * 100, Val(ttm)))
                   ELSE None

\* four quarters summing to 3.80 and a trailing P/E
C23_Witness ==
    /\ pc = "pe"
    /\ results.eps # None
    /\ Len(Val(data.earnings).quarterlyEarnings) >= 4
    /\ Val(results.eps).ttm = Some(380)
    /\ results.pe # None
    /\ Val(results.pe).trailing_pe # None

\* ------------------------------------------------------------------------
\* Claims about what the calculators and the report leave alone
\* ------------------------------------------------------------------------
\* the fields of results other than field are the same before and after
OnlyFieldSet(field) == \A f \in (DOMAIN results) \ {field} : results'[f] = results[f]

\* C24: no step of the pipeline changes what it was handed: the four raw
\* payloads are the same after every calculator, each calculator sets its
\* own record only (calculate_pe_stats leaves the price and EPS records as
\* they were), and the report step leaves tickers, the ticker's records
\* and the all_results dict main built as they were.
C24_InputsUnchanged ==
    [][/\ data' = data
       /\ tickers' = tickers
       /\ pc' = "price" => OnlyFieldSet("price")
       /\ pc' = "eps" => OnlyFieldSet("eps")
       /\ pc' = "revenue" => OnlyFieldSet("revenue")
       /\ pc' = "margin" => OnlyFieldSet("margin")
       /\ pc' = "pe" => /\ OnlyFieldSet("pe")
                        /\ results'.price = results.price
                        /\ results'.eps = results.eps
       /\ pc' = "estimates" => OnlyFieldSet("estimates")
       /\ pc' = "report" => /\ results' = results
                            /\ all_results' = [t \in {tickers[ticker_no]} |-> results]]_vars

IsNewestFirst(series) ==
    \A k \in 1..(Len(series) - 1) : series[k].date > series[k + 1].date

\* a run to the report over a price series that is not newest first and
\* annual lists the calculators reverse: payloads and records as handed in
C24_Witness ==
    /\ pc = "report"
    /\ report # None
    /\ data.price_monthly # None
    /\ ~IsNewestFirst(Val(data.price_monthly).time_series)
    /\ Len(Val(data.price_monthly).time_series) >= 3
    /\ results.price # None
    /\ results.eps # None
    /\ results.pe # None
    /\ all_results = [t \in {"AAPL"} |-> results]
    /\ tickers = <<"AAPL">>

\* C28: every price record has low_52w <= current <= high_52w; with
\* positive prices, vs_52w_high_pct is at most 0 and vs_52w_low_pct at
\* least 0 whenever they are present.
C28_CurrentWithinTwelveMonthRange ==
    (Ran("price") /\ results.price # None) =>
        LET rec == Val(results.price)
        IN  /\ rec.low_52w <= rec.current
            /\ rec.current <= rec.high_52w
            /\ (rec.low_52w > 0 /\ rec.vs_52w_high_pct # None) => Val(rec.vs_52w_high_pct) <= 0
            /\ (rec.low_52w > 0 /\ rec.vs_52w_low_pct # None) => Val(rec.vs_52w_low_pct) >= 0

\* positive closes, the current one below the high and above the low
C28_Witness ==
    /\ pc = "price"
    /\ results.price # None
    /\ 0 < Val(results.price).low_52w
    /\ Val(results.price).low_52w < Val(results.price).current
    /\ Val(results.price).current < Val(results.price).high_52w
    /\ Val(Val(results.price).vs_52w_high_pct) < 0
    /\ Val(Val(results.price).vs_52w_low_pct) > 0

\* ------------------------------------------------------------------------
\* Claims about the short-term deltas
\* ------------------------------------------------------------------------
\* C29 as stated: the revenue record's vs_prev_q_pct is the percent change
\* of the most recent quarterly revenue against the previous one whenever
\* there are at least two quarterly reports, both totalRevenue fields parse
\* and the previous one is not 0, and None only otherwise.
C29_PrevQuarterChangeWheneverDefined ==
    (Ran("revenue") /\ results.revenue # None) =>
        LET q      == Val(data.income).quarterlyReports
            latest == safe_float(q[1].totalRevenue)
            prev   == safe_float(q[2].totalRevenue)
        IN  Val(results.revenue).vs_prev_q_pct =
                IF Len(q) >= 2 /\ latest # None /\ prev # None /\ Val(prev) # 0
                THEN Some(RoundDiv((Val(latest) - Val(prev)) * 10000, Abs(Val(prev))))
                ELSE None

\* C30 as stated: in the estimates record, delta_actual_vs_next_q is the
\* latest actual EPS minus the next-quarter consensus EPS whenever both are
\* present, and delta_actual_vs_next_q_pct is None exactly when that delta
\* is None or the consensus is 0.
C30_DeltaWheneverBothPresent ==
    (Ran("estimates") /\ results.estimates # None) =>
        LET rec       == Val(results.estimates)
            latest    == rec.latest_actual_eps
            consensus == IF rec.next_quarter # None THEN Val(rec.next_quarter).eps_avg ELSE None
        IN  /\ (latest # None /\ consensus # None) =>
                   rec.delta_actual_vs_next_q = Some(Val(latest) - Val(consensus))
            /\ (rec.delta_actual_vs_next_q_pct = None) <=>
                   (rec.delta_actual_vs_next_q = None \/ consensus = Some(0))

\* ------------------------------------------------------------------------
\* Claims about SCRIPT_reddit_top_posts.py
\* ------------------------------------------------------------------------
IsFetch(e) == e.kind = "fetch"

\* the subreddit fetches made so far, in order
Fetches == SelectSeq(calls, IsFetch)

\* the posts the API returned for the k-th subreddit, in the response's order
ReturnedPosts(k) ==
    IF Fetches[k].ok /\ Fetches[k].posts # None THEN Val(Fetches[k].posts) ELSE <<>>

ShownOf(subreddit) == IF subreddit \in DOMAIN shown THEN shown[subreddit] ELSE <<>>

\* C25 as stated: for each subreddit the posts shown are the first
\* min(count, n) posts of its list sorted by score descending (a missing
\* score counts as 0): at most count posts are shown and no shown post
\* has a lower score than a post that is not shown, for every int count.
C25_TopCountPostsShown ==
    (pc = "done" /\ status = Some(0)) =>
        \A k \in 1..Len(SUBREDDITS) :
            LET listed == all_posts[SUBREDDITS[k]]
                n      == Len(listed)
                out    == ShownOf(SUBREDDITS[k])
            IN  /\ n = Len(ReturnedPosts(k))
                /\ SeqRange(listed) = SeqRange(ReturnedPosts(k))
                /\ \A a, b \in 1..n : a < b => ScoreKey(listed[a]) >= ScoreKey(listed[b])
                /\ Len(out) = Max2(0, Min2(args_count, n))
                /\ out = SubSeq(listed, 1, Len(out))
                /\ \A a \in 1..Len(out) : \A b \in (Len(out) + 1)..n :
                       ScoreKey(out[a]) >= ScoreKey(listed[b])

\* C26: fetch_all_subreddit_posts makes exactly one fetch per requested
\* subreddit, in list order and without retry (3 per call); a fetch that
\* raises maps its subreddit to the empty list and the remaining
\* subreddits are still fetched, so the dict returned has a key for every
\* requested subreddit.  A run that ends before the call makes no fetch.
C26_OneFetchPerSubreddit ==
    /\ Len(Fetches) <= Len(SUBREDDITS)
    /\ \A k \in 1..Len(Fetches) :
           /\ Fetches[k].subreddit = SUBREDDITS[k]
           /\ SUBREDDITS[k] \in DOMAIN all_posts
           /\ ~Fetches[k].ok => all_posts[SUBREDDITS[k]] = <<>>
    /\ DOMAIN all_posts = {SUBREDDITS[k] : k \in 1..Len(Fetches)}
    /\ pc = "fetch" => Len(Fetches) = loop_no - 1
    /\ (pc = "display" \/ (pc = "done" /\ status = Some(0))) =>
           /\ Len(Fetches) = 3
           /\ DOMAIN all_posts = SeqRange(SUBREDDITS)
    /\ (pc = "done" /\ status = Some(1)) => Len(Fetches) = 0

\* the first two fetches raise, the third returns posts
C26_Witness ==
    /\ pc = "done"
    /\ status = Some(0)
    /\ Len(Fetches) = 3
    /\ ~Fetches[1].ok
    /\ ~Fetches[2].ok
    /\ Fetches[3].ok
    /\ all_posts["ValueInvesting"] = <<>>
    /\ all_posts["stocks"] = <<>>
    /\ Len(all_posts["options"]) = 2

\* ------------------------------------------------------------------------
\* C27: fetch_html tries chrome120, chrome119, chrome116, safari15_5 in
\* that order with at most one request each (at most 4 in total), returns
\* the body of the first request that succeeds without requesting again,
\* raises only after all four have failed, and never returns None.
\* main fetches each address with one call, so the requests of a call are
\* the requests for its address.
\* ------------------------------------------------------------------------
ClaimedOrder == <<"chrome120", "chrome119", "chrome116", "safari15_5">>

IsGetOf(address, e) == e.kind = "get" /\ e.url = address

GetsOf(address) ==
    LET RECURSIVE pick(_)
        pick(k) == IF k > Len(calls) THEN <<>>
                   ELSE IF IsGetOf(address, calls[k]) THEN <<calls[k]>> \o pick(k + 1)
                   ELSE pick(k + 1)
    IN pick(1)

AllFailed(gets) == \A i \in 1..Len(gets) : ~gets[i].ok

InClaimedOrder(gets) ==
    /\ Len(gets) <= Len(ClaimedOrder)
    /\ \A i \in 1..Len(gets) : gets[i].impersonate = ClaimedOrder[i]
    /\ \A i \in 1..(Len(gets) - 1) : ~gets[i].ok

C27_ImpersonationsInOrderUntilSuccess ==
    /\ \A address \in {ARCHIVE_URL, ISSUE_URL} : InClaimedOrder(GetsOf(address))
    /\ pc = "get" => AllFailed(GetsOf(Val(url)))
    /\ pc = "returned" =>
          /\ result # None
          /\ GetsOf(Val(url)) # <<>>
          /\ LET gets == GetsOf(Val(url)) IN
                /\ gets[Len(gets)].ok
                /\ Val(result) = gets[Len(gets)].body
    /\ pc = "raised" =>
          /\ Len(GetsOf(Val(url))) = 4
          /\ AllFailed(GetsOf(Val(url)))

\* the newsletter is returned by the fourth request, after three failures
C27_Witness ==
    /\ pc = "returned"
    /\ url = Some(ISSUE_URL)
    /\ Len(GetsOf(ISSUE_URL)) = 4
    /\ GetsOf(ISSUE_URL)[4].impersonate = "safari15_5"
    /\ result = Some(GetsOf(ISSUE_URL)[4].body)

====
